---- MODULE Spec2Model ----
(***************************************************************************)
(* Model of the change-detection and per-user scheduling core of the       *)
(* doctor-appointment notification bot: the appointment extractor          *)
(* (api/parser.py), the change detector (monitor/tracker.py), the state    *)
(* store (database/db.py), the per-user scheduler                          *)
(* (monitor/user_scheduler.py) and the notification gate of the check      *)
(* callback (main.py).                                                     *)
(*                                                                         *)
(* Time is counted in minutes.  A calendar date is the number of its day;  *)
(* BadDate stands for a date string strptime rejects.  A closest-slot      *)
(* timestamp 'YYYY-MM-DDTHH:MM:SS' is the pair <<day, time of day>>, the   *)
(* empty string is ClosestNone.                                            *)
(***************************************************************************)
EXTENDS Integers, Sequences, FiniteSets, TLC

\* ------------------------------------------------------------------ bounds
MaxTickets == 2
MaxDate == 3
MaxSchedule == 2
MaxDay == 1
MaxSlot == 1
MaxChecks == 2
MaxPollDate == 2
NumUsers == 2
MaxSchedNow == 12

\* ------------------------------------------------------- program constants
DayMinutes == 1440
NotifyWindowHours == 24
DefaultCheckInterval == 5
DefaultFilterPeriod == 7
MinFilterPeriod == 1
MaxFilterPeriod == 30
SleepMinutes == 1
BadDate == -1

None == [none |-> TRUE]
ClosestNone == <<>>

\* ------------------------------------------------------------ value domains
Dates == 0..MaxDate
RawDates == Dates \cup {BadDate}
Tickets == 0..MaxTickets
DoctorIds == {"d1"}
ClosestTimes == {ClosestNone} \cup {<<d, t>> : d \in {1, 2}, t \in {1}}

\* datetime.now().date()
today_of(t) == t \div DayMinutes

\* datetime.strptime(date, '%Y-%m-%d'): fails on a malformed date string
strptime_ok(date) == date \in Nat

\* ------------------------------------------------------------- the extractor
\* parse_schedule_item: date keeps the part before 'T', count_tickets as given
parse_schedule_item(schedule_item) ==
    [date |-> schedule_item.date, count_tickets |-> schedule_item.count_tickets]

\* parse_closest_entry: beginTime of the marker, '' without a marker
parse_closest_entry(closest_entry) ==
    IF closest_entry = None THEN ClosestNone ELSE closest_entry.beginTime

\* closest_time.split('T')[0]
closest_date_of(closest_time) == closest_time[1]

\* variant: the deny-list is applied to the doctors of the allow-list as well
doctor_kept_deny_always(doctor, allowed, excluded) ==
    /\ (allowed # {} => doctor.displayName \in allowed)
    /\ doctor.position \notin excluded

\* the doctor filter: the allow-list has priority over the deny-list
doctor_kept(doctor, allowed, excluded) ==
    IF allowed # {} THEN doctor.displayName \in allowed
    ELSE doctor.position \notin excluded

RECURSIVE schedule_candidates_every_entry(_, _, _)
\* variant: a schedule-day entry yields a candidate whatever its count_tickets
schedule_candidates_every_entry(doctor, schedule, i) ==
    IF i > Len(schedule) THEN <<>>
    ELSE LET parsed == parse_schedule_item(schedule[i])
         IN <<[id |-> doctor.id,
               display_name |-> doctor.displayName,
               position |-> doctor.position,
               date |-> parsed.date,
               count_tickets |-> parsed.count_tickets,
               doc_busy_type_code |-> "schedule",
               closest_entry_time |-> parse_closest_entry(doctor.closestEntry)]>>
            \o schedule_candidates_every_entry(doctor, schedule, i + 1)


RECURSIVE schedule_candidates(_, _, _)
\* one candidate per schedule-day entry with count_tickets > 0, in document order
schedule_candidates(doctor, schedule, i) ==
    IF i > Len(schedule) THEN <<>>
    ELSE LET parsed == parse_schedule_item(schedule[i])
             rest == schedule_candidates(doctor, schedule, i + 1)
         IN IF parsed.count_tickets > 0
            THEN <<[id |-> doctor.id,
                    display_name |-> doctor.displayName,
                    position |-> doctor.position,
                    date |-> parsed.date,
                    count_tickets |-> parsed.count_tickets,
                    doc_busy_type_code |-> "schedule",
                    closest_entry_time |-> parse_closest_entry(doctor.closestEntry)]>> \o rest
            ELSE rest

\* variant: the emitted list is searched for the date alone, whoever the doctor
closest_candidate_any_doctor(doctor, available) ==
    LET closest_time == parse_closest_entry(doctor.closestEntry)
    IN IF doctor.closestEntry = None \/ closest_time = ClosestNone THEN <<>>
       ELSE LET closest_date == closest_date_of(closest_time)
                date_exists == \E k \in 1..Len(available) : available[k].date = closest_date
            IN IF date_exists THEN <<>>
               ELSE <<[id |-> doctor.id,
                       display_name |-> doctor.displayName,
                       position |-> doctor.position,
                       date |-> closest_date,
                       count_tickets |-> 0,
                       doc_busy_type_code |-> "closest",
                       closest_entry_time |-> closest_time]>>

\* the synthetic closest-slot record, added unless (id, date) was already emitted
closest_candidate(doctor, available) ==
    LET closest_time == parse_closest_entry(doctor.closestEntry)
    IN IF doctor.closestEntry = None \/ closest_time = ClosestNone THEN <<>>
       ELSE LET closest_date == closest_date_of(closest_time)
                date_exists == \E k \in 1..Len(available) :
                                   /\ available[k].date = closest_date
                                   /\ available[k].id = doctor.id
            IN IF date_exists THEN <<>>
               ELSE <<[id |-> doctor.id,
                       display_name |-> doctor.displayName,
                       position |-> doctor.position,
                       date |-> closest_date,
                       count_tickets |-> 0,
                       doc_busy_type_code |-> "closest",
                       closest_entry_time |-> closest_time]>>

RECURSIVE extract_doctors(_, _, _, _, _)
extract_doctors(doctors, i, allowed, excluded, available) ==
    IF i > Len(doctors) THEN available
    ELSE IF ~doctor_kept(doctors[i], allowed, excluded)
         THEN extract_doctors(doctors, i + 1, allowed, excluded, available)
         ELSE LET withSchedule == available \o schedule_candidates(doctors[i], doctors[i].schedule, 1)
                  withClosest == withSchedule \o closest_candidate(doctors[i], withSchedule)
              IN extract_doctors(doctors, i + 1, allowed, excluded, withClosest)

\* extract_available_appointments: [] for a missing document or one without 'items'
extract_available_appointments(api_response, allowed, excluded) ==
    IF api_response = None \/ DOMAIN api_response = {} \/ "items" \notin DOMAIN api_response
    THEN <<>>
    ELSE extract_doctors(api_response.items, 1, allowed, excluded, <<>>)

\* variant: a first sighting counts as new whatever its date
_is_really_new_appointment_any_date(appointment, last_state, today) ==
    LET current_tickets == appointment.count_tickets
    IN IF last_state = None
       THEN current_tickets > 0
       ELSE current_tickets > last_state.count_tickets

\* variant: the immediate horizon ends today instead of tomorrow
_is_really_new_appointment_today_only(appointment, last_state, today) ==
    LET current_tickets == appointment.count_tickets
    IN IF last_state = None
       THEN IF strptime_ok(appointment.date)
            THEN IF appointment.date > today /\ current_tickets > 0 THEN FALSE
                 ELSE current_tickets > 0
            ELSE current_tickets > 0
       ELSE current_tickets > last_state.count_tickets

\* variant: with a prior row, a changed closest-slot time counts as new too
_is_really_new_appointment_closest_rule(appointment, last_state, today) ==
    LET current_tickets == appointment.count_tickets
    IN IF last_state = None
       THEN IF strptime_ok(appointment.date)
            THEN IF appointment.date > today + 1 /\ current_tickets > 0 THEN FALSE
                 ELSE current_tickets > 0
            ELSE current_tickets > 0
       ELSE \/ current_tickets > last_state.count_tickets
            \/ /\ appointment.closest_entry_time # ClosestNone
               /\ appointment.closest_entry_time # last_state.closest_entry_time

\* variant: a first sighting for today or tomorrow counts as new whatever its tickets
_is_really_new_appointment_first_sight(appointment, last_state, today) ==
    LET current_tickets == appointment.count_tickets
    IN IF last_state = None
       THEN IF strptime_ok(appointment.date)
            THEN IF appointment.date > today + 1 /\ current_tickets > 0 THEN FALSE
                 ELSE IF appointment.date <= today + 1 THEN TRUE
                 ELSE current_tickets > 0
            ELSE current_tickets > 0
       ELSE current_tickets > last_state.count_tickets

\* variant: with a prior row only a changed closest-slot time counts as new
_is_new_or_changed_closest_only(appointment, last_state) ==
    IF last_state = None THEN TRUE
    ELSE /\ appointment.closest_entry_time # ClosestNone
         /\ appointment.closest_entry_time # last_state.closest_entry_time


\* --------------------------------------------------------- the change detector
\* AppointmentTracker._is_really_new_appointment, given the row the store returned
_is_really_new_appointment(appointment, last_state, today) ==
    LET current_tickets == appointment.count_tickets
    IN IF last_state = None
       THEN IF strptime_ok(appointment.date)
            THEN IF appointment.date > today + 1 /\ current_tickets > 0 THEN FALSE
                 ELSE IF appointment.date <= today + 1 /\ current_tickets > 0 THEN TRUE
                 ELSE current_tickets > 0
            ELSE current_tickets > 0
       ELSE LET last_tickets == last_state.count_tickets
            IN IF current_tickets > last_tickets THEN TRUE
               ELSE IF current_tickets > 0 /\ last_tickets = 0 THEN TRUE
               ELSE FALSE

\* variant: the closest-slot timestamps are compared even when the candidate has none
_is_new_or_changed_any_closest(appointment, last_state) ==
    IF last_state = None THEN TRUE
    ELSE IF appointment.count_tickets > last_state.count_tickets THEN TRUE
    ELSE appointment.closest_entry_time # last_state.closest_entry_time

\* AppointmentTracker._is_new_or_changed, given the row the store returned
_is_new_or_changed(appointment, last_state) ==
    IF last_state = None THEN TRUE
    ELSE LET current_tickets == appointment.count_tickets
             last_tickets == last_state.count_tickets
         IN IF current_tickets > 0 /\ last_tickets = 0 THEN TRUE
            ELSE IF current_tickets > last_tickets THEN TRUE
            ELSE IF appointment.closest_entry_time # ClosestNone
                    /\ appointment.closest_entry_time # last_state.closest_entry_time THEN TRUE
            ELSE FALSE

\* -------------------------------------------------------------- the state store
NullTime == -1

MaxOf(S) == CHOOSE x \in S : \A y \in S : y <= x

\* Database.get_last_schedule_state: ORDER BY checked_at DESC LIMIT 1.  checked_at has
\* the resolution of the clock, and SQL leaves the order of equal keys open: every row
\* of the key with the greatest checked_at is a possible answer; None without a row.
get_last_schedule_state(log, doctor_id, date) ==
    LET rows == {i \in 1..Len(log) : log[i].doctor_id = doctor_id /\ log[i].date = date}
    IN IF rows = {} THEN {None}
       ELSE LET latest == MaxOf({log[i].checked_at : i \in rows})
            IN {log[i] : i \in {j \in rows : log[j].checked_at = latest}}

\* variant: the row of the key is replaced, one row per (doctor_id, date)
save_schedule_state_upsert(log, schedule_data, t) ==
    LET OtherKey(r) == ~(r.doctor_id = schedule_data.doctor_id /\ r.date = schedule_data.date)
    IN Append(SelectSeq(log, OtherKey),
              [doctor_id |-> schedule_data.doctor_id,
               date |-> schedule_data.date,
               count_tickets |-> schedule_data.count_tickets,
               closest_entry_time |-> schedule_data.closest_entry_time,
               checked_at |-> t])

\* Database.save_schedule_state: INSERT one row, checked_at = CURRENT_TIMESTAMP
save_schedule_state(log, schedule_data, t) ==
    Append(log, [doctor_id |-> schedule_data.doctor_id,
                 date |-> schedule_data.date,
                 count_tickets |-> schedule_data.count_tickets,
                 closest_entry_time |-> schedule_data.closest_entry_time,
                 checked_at |-> t])

\* Database.save_doctor: INSERT ... ON CONFLICT(id) DO UPDATE
save_doctor(table, doctor_data) == table \cup {doctor_data.id}

\* variant: a notification exactly `hours` old still counts
was_notified_inclusive(log, user_id, doctor_id, date, notification_type, hours, t) ==
    \E i \in 1..Len(log) :
        /\ log[i].user_id = user_id
        /\ log[i].doctor_id = doctor_id
        /\ log[i].date = date
        /\ log[i].notification_type = notification_type
        /\ log[i].sent_at >= t - hours * 60

\* Database.was_notified: COUNT(*) of the key's rows with sent_at > now - hours
was_notified(log, user_id, doctor_id, date, notification_type, hours, t) ==
    \E i \in 1..Len(log) :
        /\ log[i].user_id = user_id
        /\ log[i].doctor_id = doctor_id
        /\ log[i].date = date
        /\ log[i].notification_type = notification_type
        /\ log[i].sent_at > t - hours * 60

\* Database.add_notification: INSERT one row, sent_at = CURRENT_TIMESTAMP
add_notification(log, user_id, doctor_id, date, notification_type, t) ==
    Append(log, [user_id |-> user_id, doctor_id |-> doctor_id, date |-> date,
                 notification_type |-> notification_type, sent_at |-> t])

\* variant: a user is due only after the interval has been exceeded
user_is_due_strict(row, t) ==
    /\ row.is_active
    /\ row.is_notifications_enabled
    /\ row.patient_number # "NULL"
    /\ row.patient_birthday # "NULL"
    /\ \/ row.last_check_time = NullTime
       \/ row.last_check_time + row.check_interval_minutes < t

\* the WHERE clause of Database.get_users_to_check
user_is_due(row, t) ==
    /\ row.is_active
    /\ row.is_notifications_enabled
    /\ row.patient_number # "NULL"
    /\ row.patient_birthday # "NULL"
    /\ \/ row.last_check_time = NullTime
       \/ row.last_check_time + row.check_interval_minutes <= t

RECURSIVE rows_in_order(_, _, _)
rows_in_order(table, ids, t) ==
    IF ids = {} THEN <<>>
    ELSE LET u == CHOOSE x \in ids : \A y \in ids : x <= y
         IN (IF user_is_due(table[u], t)
             THEN <<[user_id |-> u,
                     patient_number |-> table[u].patient_number,
                     patient_birthday |-> table[u].patient_birthday,
                     check_interval_minutes |-> table[u].check_interval_minutes,
                     filter_period_days |-> table[u].filter_period_days]>>
             ELSE <<>>) \o rows_in_order(table, ids \ {u}, t)

\* Database.get_users_to_check: the due users, in the order of the table scan
get_users_to_check(table, t) == rows_in_order(table, DOMAIN table, t)

\* Database.update_last_check_time: last_check_time = CURRENT_TIMESTAMP
update_last_check_time(table, user_id, t) ==
    IF user_id \in DOMAIN table
    THEN [table EXCEPT ![user_id].last_check_time = t]
    ELSE table

\* Database.get_user_settings: the user's row, None for an unknown user
get_user_settings(table, user_id) ==
    IF user_id \in DOMAIN table
    THEN [patient_number |-> table[user_id].patient_number,
          patient_birthday |-> table[user_id].patient_birthday,
          check_interval_minutes |-> table[user_id].check_interval_minutes,
          filter_period_days |-> table[user_id].filter_period_days,
          last_check_time |-> table[user_id].last_check_time]
    ELSE None

\* ------------------------------------------------------------------- state
VARIABLES
    now,             \* the wall clock, in minutes
    upstream,        \* the documents the provider may answer a request with
    cfg,             \* Config: DEPARTMENT_IDS, ALLOWED_DOCTORS, EXCLUDED_POSITIONS
    users,           \* table users: user_id -> row
    doctors,         \* table doctors: the ids upserted so far
    schedule_state,  \* table schedule_state: the log of observations, in rowid order
    notifications,   \* table notifications: the log of sent notifications
    sched,           \* UserScheduler: check_callback, is_running
    loop,            \* the _check_loop task: pc, users_to_check, i, wake_at
    manual,          \* a trigger_user_check call: pc, user_id, settings
    frame,           \* the running check of each task: locals of the callback and the tracker
    outbox,          \* every bot.send_message call: user, candidate, time, outcome
    hist,            \* the polls completed so far: what the last one fetched and returned
    pol              \* inputs and verdicts of the change policies applied on their own

vars == <<now, upstream, cfg, users, doctors, schedule_state, notifications, sched, loop, manual,
          frame, outbox, hist, pol>>

Tasks == {"loop", "manual", "global"}
Users == 1..NumUsers

\* ------------------------------------------------------------ upstream documents
SeqsUpTo(S, n) == UNION {[1..m -> S] : m \in 0..n}

PollDates == 1..MaxPollDate
\* a schedule entry without tickets yields no candidate: polls see entries with tickets only
PollTickets == 1..MaxTickets
Schedules(dates, n) == SeqsUpTo([date : dates, count_tickets : PollTickets], n)
Documents(dates, n, markers) ==
    {[items |-> <<[id |-> "d1", displayName |-> "n1", position |-> "p1",
                   schedule |-> s, closestEntry |-> c]>>] : s \in Schedules(dates, n), c \in markers}
PollClosest == {None, [beginTime |-> <<MaxPollDate, 1>>]}
PollDocuments == Documents(PollDates, MaxSchedule, PollClosest)
\* the documents served while two checks run at once: at most one schedule entry, no marker
ConcDocuments == Documents(PollDates, 1, {None})

\* ZdravAPIClient.get_doctors: the parsed document the provider answers with, or None on
\* a network or status error
get_doctors(provider) == provider \cup {None}

\* --------------------------------------------------------------- a running check
IdleFrame ==
    [pc |-> "idle", kind |-> "none", user_id |-> 0, filter_period_days |-> 0, max_date |-> 0,
     all_data |-> <<>>, d |-> 0, available |-> <<>>, k |-> 0, new_appointments |-> <<>>,
     n |-> 0, check |-> 0, base |-> 0, seen |-> <<>>, start_at |-> 0, error |-> FALSE]

NoPoll == [kind |-> "none", user_id |-> 0, task |-> "none", completed_at |-> 0, start_at |-> 0,
           outcome |-> "none",
           all_data |-> <<>>, new |-> {}, failed |-> {}, error |-> FALSE]

\* max_date = (datetime.now() + timedelta(days=filter_period_days)).date()
max_date_of(t, filter_period_days) == today_of(t + filter_period_days * DayMinutes)

\* variant: the last day of the filter period is dropped too
passes_date_filter_exclusive(appointment, max_date) ==
    strptime_ok(appointment.date) /\ ~(appointment.date >= max_date)

\* the date filter of check_user_appointments: a candidate whose date does not parse, or
\* lies after max_date, is skipped
passes_date_filter(appointment, max_date) ==
    strptime_ok(appointment.date) /\ ~(appointment.date > max_date)

\* entry of check_user_appointments_callback / check_user_appointments, check_for_updates,
\* or of a callback the scheduler knows nothing about, up to its first await
begin_check(kind, user_id, filter_period_days, t, check, base) ==
    [IdleFrame EXCEPT !.pc = IF kind = "generic" THEN "running" ELSE "fetch",
                      !.kind = kind,
                      !.user_id = user_id,
                      !.filter_period_days = filter_period_days,
                      !.max_date = IF kind = "user" THEN max_date_of(t, filter_period_days) ELSE 0,
                      !.check = check,
                      !.base = base,
                      !.start_at = t]

RECURSIVE scan_break(_, _, _)
\* variant: a department without a document ends the loop over the departments
scan_break(f, allowed, excluded) ==
    IF f.d > Len(f.all_data)
    THEN IF f.kind = "user" /\ f.new_appointments # <<>>
         THEN [f EXCEPT !.pc = "gate", !.n = 1, !.available = <<>>, !.k = 0]
         ELSE [f EXCEPT !.pc = "return", !.available = <<>>, !.k = 0]
    ELSE IF f.k > Len(f.available)
    THEN LET d2 == f.d + 1
         IN IF d2 > Len(f.all_data) \/ f.all_data[d2] = None
            THEN scan_break([f EXCEPT !.d = Len(f.all_data) + 1, !.available = <<>>, !.k = 1],
                            allowed, excluded)
            ELSE scan_break([f EXCEPT !.d = d2,
                                      !.available = extract_available_appointments(
                                                        f.all_data[d2], allowed, excluded),
                                      !.k = 1], allowed, excluded)
    ELSE IF f.kind = "user" /\ ~passes_date_filter(f.available[f.k], f.max_date)
    THEN scan_break([f EXCEPT !.k = f.k + 1, !.seen = Append(f.seen, f.available[f.k])],
                    allowed, excluded)
    ELSE [f EXCEPT !.pc = "evaluate"]


RECURSIVE scan(_, _, _)
\* the loops over departments and candidates, run up to the next candidate whose stored
\* state is read (pc "evaluate"), or to the end of the documents
scan(f, allowed, excluded) ==
    IF f.d > Len(f.all_data)
    THEN IF f.kind = "user" /\ f.new_appointments # <<>>
         THEN [f EXCEPT !.pc = "gate", !.n = 1, !.available = <<>>, !.k = 0]
         ELSE [f EXCEPT !.pc = "return", !.available = <<>>, !.k = 0]
    ELSE IF f.k > Len(f.available)
    THEN LET d2 == f.d + 1
             next_available ==
                 IF d2 > Len(f.all_data) \/ f.all_data[d2] = None THEN <<>>
                 ELSE extract_available_appointments(f.all_data[d2], allowed, excluded)
         IN scan([f EXCEPT !.d = d2, !.available = next_available, !.k = 1], allowed, excluded)
    ELSE IF f.kind = "user" /\ ~passes_date_filter(f.available[f.k], f.max_date)
    THEN scan([f EXCEPT !.k = f.k + 1, !.seen = Append(f.seen, f.available[f.k])],
              allowed, excluded)
    ELSE [f EXCEPT !.pc = "evaluate"]

\* the loop over new_appointments of the callback, after one of them is done
next_notification(f) ==
    IF f.n + 1 > Len(f.new_appointments)
    THEN [f EXCEPT !.pc = "return", !.n = 0]
    ELSE [f EXCEPT !.pc = "gate", !.n = f.n + 1]

Key(a) == <<a.id, a.date>>

\* what a completed poll fetched, returned and failed to send
summary(f, log, task, t) ==
    [kind |-> f.kind, user_id |-> f.user_id, task |-> task, completed_at |-> t,
     start_at |-> f.start_at, outcome |-> f.pc, all_data |-> f.all_data,
     new |-> {Key(f.new_appointments[i]) : i \in 1..Len(f.new_appointments)},
     failed |-> {<<log[i].doctor_id, log[i].date>> :
                    i \in {j \in 1..Len(log) : log[j].check = f.check /\ log[j].outcome = "failed"}},
     error |-> f.error]


\* ------------------------------------------------------------------ the check
\* get_all_departments: one awaited get_doctors per configured department
Fetch(t) ==
    /\ frame[t].pc = "fetch"
    /\ \E api_response \in get_doctors(upstream) :
         LET f == [frame[t] EXCEPT !.all_data = Append(@, api_response)]
         IN frame' = [frame EXCEPT ![t] =
                IF Len(f.all_data) < Len(cfg.DEPARTMENT_IDS) THEN f
                ELSE scan([f EXCEPT !.d = 0, !.k = 1], cfg.ALLOWED_DOCTORS, cfg.EXCLUDED_POSITIONS)]
    /\ UNCHANGED <<now, upstream, cfg, users, doctors, schedule_state, notifications, sched, loop,
                   manual, outbox, hist, pol>>

\* await get_last_schedule_state, then the verdict of the policy of this check
Evaluate(t) ==
    /\ frame[t].pc = "evaluate"
    /\ LET f == frame[t]
           appointment == f.available[f.k]
       IN \E last_state \in get_last_schedule_state(schedule_state, appointment.id, appointment.date) :
            LET is_new == IF f.kind = "user"
                          THEN _is_really_new_appointment(appointment, last_state, today_of(now))
                          ELSE _is_new_or_changed(appointment, last_state)
            IN frame' = [frame EXCEPT ![t] =
                   [f EXCEPT !.pc = "save_doctor",
                             !.new_appointments = IF is_new THEN Append(@, appointment) ELSE @]]
    /\ UNCHANGED <<now, upstream, cfg, users, doctors, schedule_state, notifications, sched, loop,
                   manual, outbox, hist, pol>>

\* _save_user_appointment_state / _save_appointment_state: await save_doctor
SaveDoctor(t) ==
    /\ frame[t].pc = "save_doctor"
    /\ doctors' = save_doctor(doctors, frame[t].available[frame[t].k])
    /\ frame' = [frame EXCEPT ![t].pc = "save_state"]
    /\ UNCHANGED <<now, upstream, cfg, users, schedule_state, notifications, sched, loop, manual,
                   outbox, hist, pol>>

\* variant: the row is written only for a candidate the verdict called new
SaveState_when_new(t) ==
    /\ frame[t].pc = "save_state"
    /\ LET f == frame[t]
           appointment == f.available[f.k]
           schedule_data == [doctor_id |-> appointment.id,
                             date |-> appointment.date,
                             count_tickets |-> appointment.count_tickets,
                             closest_entry_time |-> appointment.closest_entry_time]
           is_new == /\ f.new_appointments # <<>>
                     /\ f.new_appointments[Len(f.new_appointments)] = appointment
       IN /\ schedule_state' = IF is_new
                               THEN save_schedule_state(schedule_state, schedule_data, now)
                               ELSE schedule_state
          /\ frame' = [frame EXCEPT ![t] =
                 scan([f EXCEPT !.k = f.k + 1, !.seen = Append(f.seen, appointment)],
                      cfg.ALLOWED_DOCTORS, cfg.EXCLUDED_POSITIONS)]
    /\ UNCHANGED <<now, upstream, cfg, users, doctors, notifications, sched, loop, manual, outbox,
                   hist, pol>>

\* ... then await save_schedule_state, and on to the next candidate
SaveState(t) ==
    /\ frame[t].pc = "save_state"
    /\ LET f == frame[t]
           appointment == f.available[f.k]
           schedule_data == [doctor_id |-> appointment.id,
                             date |-> appointment.date,
                             count_tickets |-> appointment.count_tickets,
                             closest_entry_time |-> appointment.closest_entry_time]
       IN /\ schedule_state' = save_schedule_state(schedule_state, schedule_data, now)
          /\ frame' = [frame EXCEPT ![t] =
                 scan([f EXCEPT !.k = f.k + 1, !.seen = Append(f.seen, appointment)],
                      cfg.ALLOWED_DOCTORS, cfg.EXCLUDED_POSITIONS)]
    /\ UNCHANGED <<now, upstream, cfg, users, doctors, notifications, sched, loop, manual, outbox,
                   hist, pol>>

\* the notification gate: await was_notified(..., 'new_appointment', 24); continue if sent
Gate(t) ==
    /\ frame[t].pc = "gate"
    /\ LET f == frame[t]
           appointment == f.new_appointments[f.n]
           was_sent == was_notified(notifications, f.user_id, appointment.id, appointment.date,
                                    "new_appointment", NotifyWindowHours, now)
       IN IF was_sent
          THEN /\ frame' = [frame EXCEPT ![t] = next_notification(f)]
               /\ outbox' = Append(outbox, [check |-> f.check, user_id |-> f.user_id,
                                            doctor_id |-> appointment.id, date |-> appointment.date,
                                            at |-> now, outcome |-> "suppressed"])
          ELSE /\ frame' = [frame EXCEPT ![t].pc = "send"]
               /\ outbox' = outbox
    /\ UNCHANGED <<now, upstream, cfg, users, doctors, schedule_state, notifications, sched, loop,
                   manual, hist, pol>>

\* variant: the notification is recorded whether or not the message was delivered
Send_record_always(t) ==
    /\ frame[t].pc = "send"
    /\ LET f == frame[t]
           appointment == f.new_appointments[f.n]
       IN \E delivered \in BOOLEAN :
            /\ outbox' = Append(outbox, [check |-> f.check, user_id |-> f.user_id,
                                         doctor_id |-> appointment.id, date |-> appointment.date,
                                         at |-> now,
                                         outcome |-> IF delivered THEN "sent" ELSE "failed"])
            /\ frame' = [frame EXCEPT ![t] = [f EXCEPT !.pc = "record"]]
    /\ UNCHANGED <<now, upstream, cfg, users, doctors, schedule_state, notifications, sched, loop,
                   manual, hist, pol>>

\* await bot.send_message: delivered, or an exception the inner except logs
Send(t) ==
    /\ frame[t].pc = "send"
    /\ LET f == frame[t]
           appointment == f.new_appointments[f.n]
       IN \E delivered \in BOOLEAN :
            /\ outbox' = Append(outbox, [check |-> f.check, user_id |-> f.user_id,
                                         doctor_id |-> appointment.id, date |-> appointment.date,
                                         at |-> now,
                                         outcome |-> IF delivered THEN "sent" ELSE "failed"])
            /\ frame' = [frame EXCEPT ![t] =
                   IF delivered THEN [f EXCEPT !.pc = "record"] ELSE next_notification(f)]
    /\ UNCHANGED <<now, upstream, cfg, users, doctors, schedule_state, notifications, sched, loop,
                   manual, hist, pol>>

\* await add_notification after a delivered message
Record(t) ==
    /\ frame[t].pc = "record"
    /\ LET f == frame[t]
           appointment == f.new_appointments[f.n]
       IN /\ notifications' = add_notification(notifications, f.user_id, appointment.id,
                                               appointment.date, "new_appointment", now)
          /\ frame' = [frame EXCEPT ![t] = next_notification(f)]
    /\ UNCHANGED <<now, upstream, cfg, users, doctors, schedule_state, sched, loop, manual, outbox,
                   hist, pol>>

\* a callback of which the scheduler knows only that it returns or raises
GenericFinish(t) ==
    /\ frame[t].pc = "running"
    /\ \E outcome \in {"return", "raised"} : frame' = [frame EXCEPT ![t].pc = outcome]
    /\ UNCHANGED <<now, upstream, cfg, users, doctors, schedule_state, notifications, sched, loop,
                   manual, outbox, hist, pol>>

CallbackKind == IF sched.check_callback = "production" THEN "user" ELSE "generic"

\* ----------------------------------------------------------------- the driver loop
\* while self.is_running: users_to_check = await self.db.get_users_to_check()
LoopTick ==
    /\ loop.pc = "sleep"
    /\ now >= loop.wake_at
    /\ sched.is_running
    /\ loop' = [pc |-> "next", users_to_check |-> get_users_to_check(users, now),
                i |-> 1, wake_at |-> 0]
    /\ UNCHANGED <<now, upstream, cfg, users, doctors, schedule_state, notifications, sched, manual,
                   frame, outbox, hist, pol>>

\* for user in users_to_check: await self.check_callback(...); after the last one
\* await asyncio.sleep(60)
LoopNext ==
    /\ loop.pc = "next"
    /\ IF loop.i <= Len(loop.users_to_check) /\ sched.check_callback # "none"
       THEN LET user == loop.users_to_check[loop.i]
            IN /\ hist.nchecks < MaxChecks
               /\ frame["loop"].pc = "idle"
               /\ frame' = [frame EXCEPT !["loop"] =
                      begin_check(CallbackKind, user.user_id, user.filter_period_days, now,
                                  hist.nchecks + 1, Len(schedule_state))]
               /\ hist' = [hist EXCEPT !.nchecks = @ + 1]
               /\ loop' = [loop EXCEPT !.pc = "check"]
       ELSE /\ loop' = [pc |-> "sleep", users_to_check |-> <<>>, i |-> 0,
                        wake_at |-> now + SleepMinutes]
            /\ UNCHANGED <<frame, hist>>
    /\ UNCHANGED <<now, upstream, cfg, users, doctors, schedule_state, notifications, sched, manual,
                   outbox, pol>>

\* variant: after the update the for loop is left, the remaining users wait for a later tick
LoopUpdate_ends_tick ==
    /\ loop.pc = "check"
    /\ frame["loop"].pc = "return"
    /\ users' = update_last_check_time(users, frame["loop"].user_id, now)
    /\ hist' = [hist EXCEPT !.prev = summary(frame["loop"], outbox, "loop", now)]
    /\ frame' = [frame EXCEPT !["loop"] = IdleFrame]
    /\ loop' = [pc |-> "sleep", users_to_check |-> <<>>, i |-> 0, wake_at |-> now + SleepMinutes]
    /\ UNCHANGED <<now, upstream, cfg, doctors, schedule_state, notifications, sched, manual, outbox, pol>>

\* the callback returned: await self.db.update_last_check_time(user['user_id'])
LoopUpdate ==
    /\ loop.pc = "check"
    /\ frame["loop"].pc = "return"
    /\ users' = update_last_check_time(users, frame["loop"].user_id, now)
    /\ hist' = [hist EXCEPT !.prev = summary(frame["loop"], outbox, "loop", now)]
    /\ frame' = [frame EXCEPT !["loop"] = IdleFrame]
    /\ loop' = [loop EXCEPT !.pc = "next", !.i = @ + 1]
    /\ UNCHANGED <<now, upstream, cfg, doctors, schedule_state, notifications, sched, manual, outbox, pol>>

\* variant: no handler around the single user; the exception reaches the handler of the
\* whole tick, which logs it and sleeps
LoopCatch_whole_tick ==
    /\ loop.pc = "check"
    /\ frame["loop"].pc = "raised"
    /\ hist' = [hist EXCEPT !.prev = summary(frame["loop"], outbox, "loop", now)]
    /\ frame' = [frame EXCEPT !["loop"] = IdleFrame]
    /\ loop' = [pc |-> "sleep", users_to_check |-> <<>>, i |-> 0, wake_at |-> now + SleepMinutes]
    /\ UNCHANGED <<now, upstream, cfg, users, doctors, schedule_state, notifications, sched, manual,
                   outbox, pol>>

\* the callback raised: except Exception logs it, and the loop goes on to the next user
LoopCatch ==
    /\ loop.pc = "check"
    /\ frame["loop"].pc = "raised"
    /\ hist' = [hist EXCEPT !.prev = summary(frame["loop"], outbox, "loop", now)]
    /\ frame' = [frame EXCEPT !["loop"] = IdleFrame]
    /\ loop' = [loop EXCEPT !.pc = "next", !.i = @ + 1]
    /\ UNCHANGED <<now, upstream, cfg, users, doctors, schedule_state, notifications, sched, manual,
                   outbox, pol>>

\* ------------------------------------------------------------ trigger_user_check
ManualTrigger(user_id) ==
    /\ manual.pc = "idle"
    /\ sched.check_callback # "none"
    /\ manual' = [pc |-> "settings", user_id |-> user_id]
    /\ UNCHANGED <<now, upstream, cfg, users, doctors, schedule_state, notifications, sched, loop,
                   frame, outbox, hist, pol>>

\* variant: only an unknown user is turned away, the credentials are not looked at
ManualSettings_any_credentials ==
    /\ manual.pc = "settings"
    /\ LET settings == get_user_settings(users, manual.user_id)
       IN IF settings = None
          THEN /\ manual' = [pc |-> "idle", user_id |-> 0]
               /\ UNCHANGED <<frame, hist>>
          ELSE /\ hist.nchecks < MaxChecks
               /\ frame["manual"].pc = "idle"
               /\ frame' = [frame EXCEPT !["manual"] =
                      begin_check(CallbackKind, manual.user_id, settings.filter_period_days, now,
                                  hist.nchecks + 1, Len(schedule_state))]
               /\ hist' = [hist EXCEPT !.nchecks = @ + 1]
               /\ manual' = [manual EXCEPT !.pc = "check"]
    /\ UNCHANGED <<now, upstream, cfg, users, doctors, schedule_state, notifications, sched, loop,
                   outbox, pol>>


\* settings = await get_user_settings(user_id); return without credentials, else the callback
ManualSettings ==
    /\ manual.pc = "settings"
    /\ LET settings == get_user_settings(users, manual.user_id)
       IN IF \/ settings = None
             \/ settings.patient_number \in {"NULL", ""}
             \/ settings.patient_birthday \in {"NULL", ""}
          THEN /\ manual' = [pc |-> "idle", user_id |-> 0]
               /\ UNCHANGED <<frame, hist>>
          ELSE /\ hist.nchecks < MaxChecks
               /\ frame["manual"].pc = "idle"
               /\ frame' = [frame EXCEPT !["manual"] =
                      begin_check(CallbackKind, manual.user_id, settings.filter_period_days, now,
                                  hist.nchecks + 1, Len(schedule_state))]
               /\ hist' = [hist EXCEPT !.nchecks = @ + 1]
               /\ manual' = [manual EXCEPT !.pc = "check"]
    /\ UNCHANGED <<now, upstream, cfg, users, doctors, schedule_state, notifications, sched, loop,
                   outbox, pol>>

\* the callback returned: await self.db.update_last_check_time(user_id)
ManualUpdate ==
    /\ manual.pc = "check"
    /\ frame["manual"].pc = "return"
    /\ users' = update_last_check_time(users, manual.user_id, now)
    /\ hist' = [hist EXCEPT !.prev = summary(frame["manual"], outbox, "manual", now)]
    /\ frame' = [frame EXCEPT !["manual"] = IdleFrame]
    /\ manual' = [pc |-> "idle", user_id |-> 0]
    /\ UNCHANGED <<now, upstream, cfg, doctors, schedule_state, notifications, sched, loop, outbox, pol>>

\* the callback raised: except Exception logs it
ManualCatch ==
    /\ manual.pc = "check"
    /\ frame["manual"].pc = "raised"
    /\ hist' = [hist EXCEPT !.prev = summary(frame["manual"], outbox, "manual", now)]
    /\ frame' = [frame EXCEPT !["manual"] = IdleFrame]
    /\ manual' = [pc |-> "idle", user_id |-> 0]
    /\ UNCHANGED <<now, upstream, cfg, users, doctors, schedule_state, notifications, sched, loop,
                   outbox, pol>>

\* ------------------------------------------------- a poll with the global policy
\* a caller awaits AppointmentTracker.check_for_updates()
GlobalStart ==
    /\ frame["global"].pc = "idle"
    /\ hist.nchecks < MaxChecks
    /\ frame' = [frame EXCEPT !["global"] =
           begin_check("global", 0, 0, now, hist.nchecks + 1, Len(schedule_state))]
    /\ hist' = [hist EXCEPT !.nchecks = @ + 1]
    /\ UNCHANGED <<now, upstream, cfg, users, doctors, schedule_state, notifications, sched, loop,
                   manual, outbox, pol>>

\* check_for_updates returns new_appointments to its caller
GlobalReturn ==
    /\ frame["global"].pc = "return"
    /\ hist' = [hist EXCEPT !.prev = summary(frame["global"], outbox, "global", now)]
    /\ frame' = [frame EXCEPT !["global"] = IdleFrame]
    /\ UNCHANGED <<now, upstream, cfg, users, doctors, schedule_state, notifications, sched, loop,
                   manual, outbox, pol>>

\* -------------------------------------------------------------------- the clock
TimePoints == {day * DayMinutes + slot * DefaultCheckInterval : day \in 0..MaxDay, slot \in 0..MaxSlot}

\* time passes while the loop sleeps and while a check waits for the network
Advance ==
    /\ \/ loop.pc = "sleep"
       \/ \E t \in Tasks : frame[t].pc \in {"fetch", "send"}
    /\ \E t \in TimePoints : t > now /\ now' = t
    /\ UNCHANGED <<upstream, cfg, users, doctors, schedule_state, notifications, sched, loop, manual,
                   frame, outbox, hist, pol>>

Tick ==
    /\ now < MaxSchedNow
    /\ now' = now + 1
    /\ UNCHANGED <<upstream, cfg, users, doctors, schedule_state, notifications, sched, loop, manual,
                   frame, outbox, hist, pol>>


\* ------------------------------------------------ the scheduler's entry points
\* UserScheduler.set_check_callback
SetCheckCallback(callback) ==
    /\ sched.check_callback = "none"
    /\ sched' = [sched EXCEPT !.check_callback = callback]
    /\ UNCHANGED <<now, upstream, cfg, users, doctors, schedule_state, notifications, loop, manual,
                   frame, outbox, hist, pol>>

\* UserScheduler.start: raises without a callback, returns when running, else creates the task
Start ==
    /\ sched.check_callback # "none"
    /\ ~sched.is_running
    /\ sched' = [sched EXCEPT !.is_running = TRUE]
    /\ loop' = [pc |-> "sleep", users_to_check |-> <<>>, i |-> 0, wake_at |-> now]
    /\ UNCHANGED <<now, upstream, cfg, users, doctors, schedule_state, notifications, manual, frame,
                   outbox, hist, pol>>

\* DoctorNotificationBot.on_startup: set_check_callback(check_user_appointments_callback), start()
OnStartup ==
    /\ sched.check_callback = "none"
    /\ ~sched.is_running
    /\ sched' = [check_callback |-> "production", is_running |-> TRUE]
    /\ loop' = [pc |-> "sleep", users_to_check |-> <<>>, i |-> 0, wake_at |-> now]
    /\ UNCHANGED <<now, upstream, cfg, users, doctors, schedule_state, notifications, manual, frame,
                   outbox, hist, pol>>

\* ------------------------------------------------- the policies on their own
NoPol == [pc |-> "none"]

PolicyAppointments ==
    {[id |-> "d1", display_name |-> "n1", position |-> "p1", date |-> date,
      count_tickets |-> count, doc_busy_type_code |-> code, closest_entry_time |-> closest] :
        date \in RawDates, count \in Tickets, code \in {"schedule", "closest"},
        closest \in ClosestTimes}

PolicyStates(appointment) ==
    {None} \cup
    {[doctor_id |-> appointment.id, date |-> appointment.date, count_tickets |-> count,
      closest_entry_time |-> closest, checked_at |-> 0] :
        count \in Tickets, closest \in ClosestTimes}

ApplyPolicy ==
    /\ pol.pc = "input"
    /\ pol' = [pol EXCEPT !.pc = "verdict",
                          !.really_new = _is_really_new_appointment(pol.appointment, pol.last_state,
                                                                    pol.today),
                          !.new_or_changed = _is_new_or_changed(pol.appointment, pol.last_state)]
    /\ UNCHANGED <<now, upstream, cfg, users, doctors, schedule_state, notifications, sched, loop,
                   manual, frame, outbox, hist>>

\* Config: one monitored department; the doctor allow-list and the position deny-list
\* that the extractor reads are left empty
DEPARTMENT_IDS == <<52>>

ALLOWED_DOCTORS == {}

EXCLUDED_POSITIONS == {}

\* ------------------------------------------------------------- specifications
DefaultUser ==
    [is_active |-> TRUE, is_notifications_enabled |-> TRUE, patient_number |-> "NULL",
     patient_birthday |-> "NULL", check_interval_minutes |-> DefaultCheckInterval,
     filter_period_days |-> DefaultFilterPeriod, last_check_time |-> NullTime]

\* a user after the guided setup, with the filter period set through the settings dialog
SetUpUser(filter_period_days) ==
    [DefaultUser EXCEPT !.patient_number = "pn", !.patient_birthday = "pb",
                        !.filter_period_days = filter_period_days]

InitCommon ==
    /\ now = 0
    /\ cfg = [DEPARTMENT_IDS |-> DEPARTMENT_IDS, ALLOWED_DOCTORS |-> ALLOWED_DOCTORS,
              EXCLUDED_POSITIONS |-> EXCLUDED_POSITIONS]
    /\ doctors = {}
    /\ schedule_state = <<>>
    /\ notifications = <<>>
    /\ sched = [check_callback |-> "none", is_running |-> FALSE]
    /\ loop = [pc |-> "absent", users_to_check |-> <<>>, i |-> 0, wake_at |-> 0]
    /\ manual = [pc |-> "idle", user_id |-> 0]
    /\ frame = [t \in Tasks |-> IdleFrame]
    /\ outbox = <<>>
    /\ hist = [nchecks |-> 0, prev |-> NoPoll]

\* the production wiring with one subscriber: the driver loop and trigger_user_check
Init ==
    /\ InitCommon
    /\ upstream = ConcDocuments
    /\ users = [u \in Users |-> IF u = 1 THEN SetUpUser(MinFilterPeriod) ELSE DefaultUser]
    /\ pol = NoPol

\* the same with the full range of documents
InitSeq ==
    /\ InitCommon
    /\ upstream = PollDocuments
    /\ users = [u \in Users |-> IF u = 1 THEN SetUpUser(MinFilterPeriod) ELSE DefaultUser]
    /\ pol = NoPol

Step(t) ==
    \/ Fetch(t)
    \/ Evaluate(t)
    \/ SaveDoctor(t)
    \/ SaveState(t)
    \/ Gate(t)
    \/ Send(t)
    \/ Record(t)

Next ==
    \/ OnStartup
    \/ LoopTick
    \/ LoopNext
    \/ LoopUpdate
    \/ ManualTrigger(1)
    \/ ManualSettings
    \/ ManualUpdate
    \/ \E t \in {"loop", "manual"} : Step(t)
    \/ Advance

Spec == Init /\ [][Next]_vars

\* one check at a time: the driver loop alone
NextSeq ==
    \/ OnStartup
    \/ LoopTick
    \/ LoopNext
    \/ LoopUpdate
    \/ Step("loop")
    \/ Advance

SpecSeq == InitSeq /\ [][NextSeq]_vars

\* polls with the global policy, one after the other
NextGlobal ==
    \/ GlobalStart
    \/ GlobalReturn
    \/ Fetch("global")
    \/ Evaluate("global")
    \/ SaveDoctor("global")
    \/ SaveState("global")
    \/ Advance

SpecGlobal == InitSeq /\ [][NextGlobal]_vars

\* the scheduler with a callback it knows nothing about, and every user set up
InitSched ==
    /\ InitCommon
    /\ upstream = {}
    /\ users = [u \in Users |-> SetUpUser(DefaultFilterPeriod)]
    /\ pol = NoPol

NextSched ==
    \/ SetCheckCallback("generic")
    \/ Start
    \/ LoopTick
    \/ LoopNext
    \/ LoopUpdate
    \/ LoopCatch
    \/ GenericFinish("loop")
    \/ Tick

SpecSched == InitSched /\ [][NextSched]_vars

\* the two policies applied to every candidate and every prior state
InitPolicy ==
    /\ InitCommon
    /\ upstream = {}
    /\ users = [u \in Users |-> DefaultUser]
    /\ \E a \in PolicyAppointments : \E ls \in PolicyStates(a) : \E d \in 0..MaxDay :
         pol = [pc |-> "input", appointment |-> a, last_state |-> ls, today |-> d,
                really_new |-> FALSE, new_or_changed |-> FALSE]

NextPolicy == ApplyPolicy

SpecPolicy == InitPolicy /\ [][NextPolicy]_vars

\* ======================================================================= claims
WindowMinutes == NotifyWindowHours * 60

SameKey(x, y) == x.user_id = y.user_id /\ x.doctor_id = y.doctor_id /\ x.date = y.date

\* the candidates of a check that lie within the filter period counted from the day the
\* check started
InPeriod(f, a) == strptime_ok(a.date) /\ a.date <= today_of(f.start_at) + f.filter_period_days

\* the rows a check has appended so far, if nothing else wrote in between
WrittenBy(f) == SubSeq(schedule_state, f.base + 1, Len(schedule_state))

\* the candidates a check is done with that lay within the filter period, in order
EvaluatedBy(f) == LET Test(a) == InPeriod(f, a) IN SelectSeq(f.seen, Test)

\* C1: whenever the driver loop's callback for a user has completed, by returning or by
\* raising, last_check_time of that user has been advanced to the time of completion.
C1_LastCheckAdvancedOnCompletion ==
    hist.prev.task = "loop" =>
        users[hist.prev.user_id].last_check_time >= hist.prev.completed_at

\* C2: a candidate whose dispatch failed in a user's check is classified new and dispatched
\* again in the user's next check, when that check fetches the same documents.
C2_FailedDispatchRetried ==
    LET f == frame["loop"]
    IN (/\ f.pc = "return"
        /\ f.kind = "user"
        /\ hist.prev.kind = "user"
        /\ hist.prev.user_id = f.user_id
        /\ hist.prev.all_data = f.all_data)
       => \A key \in hist.prev.failed :
            /\ \E i \in 1..Len(f.new_appointments) : Key(f.new_appointments[i]) = key
            /\ \E j \in 1..Len(outbox) :
                 /\ outbox[j].check = f.check
                 /\ outbox[j].outcome \in {"sent", "failed"}
                 /\ <<outbox[j].doctor_id, outbox[j].date>> = key

\* C3: in a run of checks one after the other, no message for a key is sent or attempted
\* less than 24 hours after a delivered one, and a candidate classified new is held back
\* only if a notification for its key was recorded less than 24 hours earlier.
C3_SuppressionWindow ==
    /\ \A i, j \in 1..Len(outbox) :
         (/\ i < j
          /\ outbox[i].outcome = "sent"
          /\ outbox[j].outcome \in {"sent", "failed"}
          /\ SameKey(outbox[i], outbox[j]))
         => outbox[j].at - outbox[i].at >= WindowMinutes
    /\ \A j \in 1..Len(outbox) :
         outbox[j].outcome = "suppressed"
         => \E n \in 1..Len(notifications) :
              /\ SameKey(notifications[n], outbox[j])
              /\ notifications[n].sent_at <= outbox[j].at
              /\ outbox[j].at - notifications[n].sent_at < WindowMinutes

\* a key delivered, held back within the window, and delivered again once 24 hours passed
C3_Witness ==
    \E i, j, k \in 1..Len(outbox) :
        /\ outbox[i].outcome = "sent"
        /\ outbox[j].outcome = "suppressed"
        /\ outbox[k].outcome = "sent"
        /\ i < j /\ i < k
        /\ SameKey(outbox[i], outbox[j])
        /\ SameKey(outbox[i], outbox[k])
        /\ outbox[k].at - outbox[i].at >= WindowMinutes

\* C4: under every interleaving of the driver loop and trigger_user_check, a user is sent
\* no two messages for the same (doctor_id, date) less than 24 hours apart.
C4_AtMostOncePerWindow ==
    \A i, j \in 1..Len(outbox) :
        (/\ i < j
         /\ outbox[i].outcome = "sent"
         /\ outbox[j].outcome = "sent"
         /\ SameKey(outbox[i], outbox[j]))
        => outbox[j].at - outbox[i].at >= WindowMinutes

\* C5: a poll that fetches the documents the previous poll of the same policy fetched (here
\* on the same day, so that the date filter drops the same candidates) classifies no
\* candidate as new.
C5_SecondPollFindsNothingNew ==
    \A t \in Tasks :
        LET f == frame[t]
        IN (/\ f.pc \in {"gate", "send", "record", "return"}
            /\ hist.prev.kind = f.kind
            /\ hist.prev.all_data = f.all_data
            /\ today_of(hist.prev.start_at) = today_of(f.start_at)
            /\ \A d \in 1..Len(f.all_data) : f.all_data[d] # None)
           => f.new_appointments = <<>>

\* C6: without a prior row, a candidate with tickets dated after tomorrow is not new.
C6_HorizonRevealNotNew ==
    (/\ pol.pc = "verdict"
     /\ pol.last_state = None
     /\ strptime_ok(pol.appointment.date)
     /\ pol.appointment.date > pol.today + 1
     /\ pol.appointment.count_tickets > 0)
    => ~pol.really_new

\* (D, today+3, tickets=2) without a prior row, judged
C6_Witness ==
    /\ pol.pc = "verdict"
    /\ pol.last_state = None
    /\ pol.appointment.date = pol.today + 3
    /\ pol.appointment.count_tickets = 2
    /\ ~pol.really_new

\* C7: without a prior row, a candidate with tickets dated today or tomorrow is new.
C7_ImmediateHorizonNew ==
    (/\ pol.pc = "verdict"
     /\ pol.last_state = None
     /\ strptime_ok(pol.appointment.date)
     /\ pol.appointment.date <= pol.today + 1
     /\ pol.appointment.count_tickets > 0)
    => pol.really_new

\* (D, tomorrow, tickets=1) without a prior row, judged
C7_Witness ==
    /\ pol.pc = "verdict"
    /\ pol.last_state = None
    /\ pol.appointment.date = pol.today + 1
    /\ pol.appointment.count_tickets = 1
    /\ pol.really_new

\* C8: with a prior row, the per-user policy says new exactly when the ticket count is
\* greater than the prior one; the closest-slot time plays no part.
C8_NewIffTicketsIncreased ==
    (pol.pc = "verdict" /\ pol.last_state # None)
    => (pol.really_new <=> pol.appointment.count_tickets > pol.last_state.count_tickets)

\* an unchanged positive ticket count with a changed closest-slot time, judged not new
C8_Witness ==
    /\ pol.pc = "verdict"
    /\ pol.last_state # None
    /\ pol.appointment.count_tickets = pol.last_state.count_tickets
    /\ pol.appointment.count_tickets > 0
    /\ pol.appointment.closest_entry_time # ClosestNone
    /\ pol.appointment.closest_entry_time # pol.last_state.closest_entry_time
    /\ ~pol.really_new

\* C9: the rows and the doctor record a user's check writes are those of the candidates
\* dated no later than the day the check started plus filter_period_days, each of which is
\* evaluated; a candidate dated later is never returned as new and leaves no row.
C9_FilterPeriod ==
    LET f == frame["loop"]
    IN f.kind = "user" =>
        /\ Len(WrittenBy(f)) = Len(EvaluatedBy(f))
        /\ \A i \in 1..Len(EvaluatedBy(f)) :
             /\ WrittenBy(f)[i].doctor_id = EvaluatedBy(f)[i].id
             /\ WrittenBy(f)[i].date = EvaluatedBy(f)[i].date
        /\ \A i \in 1..Len(f.new_appointments) : InPeriod(f, f.new_appointments[i])
        /\ (f.pc = "evaluate" => InPeriod(f, f.available[f.k]))
        /\ (f.pc \in {"gate", "send", "record", "return"} =>
              \A d \in 1..Len(f.all_data) :
                  LET available == extract_available_appointments(
                                       f.all_data[d], cfg.ALLOWED_DOCTORS, cfg.EXCLUDED_POSITIONS)
                  IN \A i \in 1..Len(available) :
                         InPeriod(f, available[i]) =>
                             \E j \in 1..Len(WrittenBy(f)) :
                                 /\ WrittenBy(f)[j].doctor_id = available[i].id
                                 /\ WrittenBy(f)[j].date = available[i].date)
        /\ doctors = {schedule_state[i].doctor_id : i \in 1..Len(schedule_state)}
                     \cup (IF f.pc = "save_state" THEN {f.available[f.k].id} ELSE {})

\* a finished check that met a candidate dated today + filter_period_days, recorded, and
\* one dated a day later, dropped
C9_Witness ==
    LET f == frame["loop"]
    IN /\ f.kind = "user"
       /\ f.pc = "return"
       /\ \E i, j \in 1..Len(f.seen) :
            /\ f.seen[i].date = today_of(f.start_at) + f.filter_period_days
            /\ f.seen[j].date = today_of(f.start_at) + f.filter_period_days + 1
            /\ f.seen[j].count_tickets > 0
       /\ \E r \in 1..Len(WrittenBy(f)) :
            WrittenBy(f)[r].date = today_of(f.start_at) + f.filter_period_days

\* C10: every candidate a check evaluates adds exactly one row with the candidate's ticket
\* count and closest-slot time, and its doctor record, whatever the verdict and whatever
\* the notification gate does later; when the check is over the newest row of every
\* evaluated key is what the check saw last for it.
C10_StateAlwaysRecorded ==
    LET f == frame["loop"]
        evaluated == EvaluatedBy(f)
    IN f.kind = "user" =>
        /\ Len(WrittenBy(f)) = Len(evaluated)
        /\ \A i \in 1..Len(evaluated) :
             /\ WrittenBy(f)[i].doctor_id = evaluated[i].id
             /\ WrittenBy(f)[i].date = evaluated[i].date
             /\ WrittenBy(f)[i].count_tickets = evaluated[i].count_tickets
             /\ WrittenBy(f)[i].closest_entry_time = evaluated[i].closest_entry_time
             /\ evaluated[i].id \in doctors
        /\ (f.pc = "return" =>
              \A i \in 1..Len(evaluated) :
                  LET rows == {r \in 1..Len(schedule_state) :
                                  /\ schedule_state[r].doctor_id = evaluated[i].id
                                  /\ schedule_state[r].date = evaluated[i].date}
                      last == {j \in 1..Len(evaluated) :
                                  /\ evaluated[j].id = evaluated[i].id
                                  /\ evaluated[j].date = evaluated[i].date}
                  IN /\ rows # {}
                     /\ schedule_state[MaxOf(rows)].count_tickets
                            = evaluated[MaxOf(last)].count_tickets
                     /\ schedule_state[MaxOf(rows)].closest_entry_time
                            = evaluated[MaxOf(last)].closest_entry_time)

\* a finished check that evaluated a candidate it found unchanged and one it found new
\* whose message was not delivered
C10_Witness ==
    LET f == frame["loop"]
    IN /\ f.kind = "user"
       /\ f.pc = "return"
       /\ Len(f.new_appointments) < Len(EvaluatedBy(f))
       /\ f.new_appointments # <<>>
       /\ \E j \in 1..Len(outbox) : outbox[j].check = f.check /\ outbox[j].outcome = "failed"

\* ------------------------------------------------------ the due query on its own
\* every content of a users row that matters to get_users_to_check
DueRows ==
    [is_active : BOOLEAN, is_notifications_enabled : BOOLEAN,
     patient_number : {"NULL", "pn"}, patient_birthday : {"NULL", "pb"},
     check_interval_minutes : {DefaultCheckInterval},
     filter_period_days : {DefaultFilterPeriod},
     last_check_time : {NullTime, 3, 6}]

\* the loop is about to query a table of arbitrary rows, 8 or 9 minutes after minute 0
InitDue ==
    /\ now \in {DefaultCheckInterval + 3, DefaultCheckInterval + 4}
    /\ cfg = [DEPARTMENT_IDS |-> DEPARTMENT_IDS, ALLOWED_DOCTORS |-> ALLOWED_DOCTORS,
              EXCLUDED_POSITIONS |-> EXCLUDED_POSITIONS]
    /\ upstream = {}
    /\ users \in [Users -> DueRows]
    /\ doctors = {}
    /\ schedule_state = <<>>
    /\ notifications = <<>>
    /\ sched = [check_callback |-> "generic", is_running |-> TRUE]
    /\ loop = [pc |-> "sleep", users_to_check |-> <<>>, i |-> 0, wake_at |-> 0]
    /\ manual = [pc |-> "idle", user_id |-> 0]
    /\ frame = [t \in Tasks |-> IdleFrame]
    /\ outbox = <<>>
    /\ hist = [nchecks |-> 0, prev |-> NoPoll]
    /\ pol = NoPol

NextDue == LoopTick

SpecDue == InitDue /\ [][NextDue]_vars

\* C11: get_users_to_check returns exactly the users that are active, have notifications
\* enabled, have both credentials set, and were never checked or were last checked at
\* least check_interval_minutes ago, each of them once.
C11_DueUsersExactly ==
    loop.pc = "next" =>
        /\ {loop.users_to_check[i].user_id : i \in 1..Len(loop.users_to_check)}
             = {u \in Users :
                   /\ users[u].is_active
                   /\ users[u].is_notifications_enabled
                   /\ users[u].patient_number # "NULL"
                   /\ users[u].patient_birthday # "NULL"
                   /\ \/ users[u].last_check_time = NullTime
                      \/ now - users[u].last_check_time >= users[u].check_interval_minutes}
        /\ \A i, j \in 1..Len(loop.users_to_check) :
             loop.users_to_check[i].user_id = loop.users_to_check[j].user_id => i = j

\* interval 5: the user checked 6 minutes ago is returned, the one checked 3 minutes ago
\* is not
C11_Witness ==
    /\ loop.pc = "next"
    /\ \E u, v \in Users :
         /\ users[u].check_interval_minutes = 5 /\ users[u].last_check_time = now - 6
         /\ users[v].check_interval_minutes = 5 /\ users[v].last_check_time = now - 3
         /\ user_is_due(users[v], now + 2)
         /\ \E i \in 1..Len(loop.users_to_check) : loop.users_to_check[i].user_id = u
         /\ \A i \in 1..Len(loop.users_to_check) : loop.users_to_check[i].user_id # v

\* C12: trigger_user_check runs the callback whether or not the user is due and sets
\* last_check_time when the callback is over, so that the driver loop starts no check of
\* that user less than check_interval_minutes after the manual one.
C12_ManualCheckResetsSchedule ==
    [][/\ (hist'.prev.task = "manual" =>
              users'[hist'.prev.user_id].last_check_time >= hist'.prev.completed_at)
       /\ (/\ hist.prev.task = "manual"
           /\ frame["loop"].pc = "idle"
           /\ frame'["loop"].pc # "idle"
           /\ frame'["loop"].user_id = hist.prev.user_id)
          => now >= hist.prev.completed_at
                      + users[hist.prev.user_id].check_interval_minutes]_vars

\* C13: in a tick with several due users an exception of one user's callback is caught:
\* the loop stays alive and goes on to the next user of the same list, the callback is
\* invoked for every listed user, and a returning callback advances the last_check_time
\* of its own user and of nobody else.
C13_FailureIsolatedPerUser ==
    /\ [](loop.pc = "sleep" /\ hist.nchecks > 0 => hist.nchecks >= NumUsers)
    /\ [][/\ (frame["loop"].pc = "raised" /\ frame'["loop"].pc # "raised") =>
                /\ loop'.pc = "next"
                /\ loop'.i = loop.i + 1
                /\ loop'.users_to_check = loop.users_to_check
                /\ sched'.is_running
                /\ users' = users
          /\ (loop.pc = "next" /\ loop' # loop /\ loop.i <= Len(loop.users_to_check)) =>
                /\ loop'.pc = "check"
                /\ frame'["loop"].pc = "running"
                /\ frame'["loop"].user_id = loop.users_to_check[loop.i].user_id
          /\ (frame["loop"].pc = "return" /\ frame'["loop"].pc # "return") =>
                /\ users'[frame["loop"].user_id].last_check_time = now
                /\ \A u \in Users \ {frame["loop"].user_id} : users'[u] = users[u]]_vars

\* the first tick is over: the callback raised for the first user of the list and
\* returned for the one after it, whose last_check_time alone was advanced
C13_Witness ==
    /\ loop.pc = "next"
    /\ Len(loop.users_to_check) >= 2
    /\ loop.i = 3
    /\ users[loop.users_to_check[1].user_id].last_check_time = NullTime
    /\ users[loop.users_to_check[2].user_id].last_check_time # NullTime
    /\ hist.prev.outcome = "return"
    /\ hist.prev.user_id = loop.users_to_check[2].user_id

\* ------------------------------------------------------------ stopping the driver
\* UserScheduler.stop: is_running = False, self._task.cancel(), await self._task.
\* CancelledError is raised in the task at the await it is suspended in; it is a
\* BaseException, which neither the except Exception clauses of _check_loop nor those of
\* the callback catch: the check in flight, if any, is abandoned where it stands, and the
\* task ends.  The call that was awaited may still have taken effect: that is the run in
\* which its action comes first.
Stop ==
    /\ sched.is_running
    /\ loop.pc \in {"sleep", "next", "check"}
    /\ sched' = [sched EXCEPT !.is_running = FALSE]
    /\ loop' = [loop EXCEPT !.pc = "done"]
    /\ IF frame["loop"].pc = "idle"
       THEN UNCHANGED <<frame, hist>>
       ELSE /\ hist' = [hist EXCEPT !.prev =
                  [summary(frame["loop"], outbox, "loop", now) EXCEPT
                      !.outcome = IF frame["loop"].pc = "return" THEN "return" ELSE "cancelled"]]
            /\ frame' = [frame EXCEPT !["loop"] = IdleFrame]
    /\ UNCHANGED <<now, upstream, cfg, users, doctors, schedule_state, notifications, manual,
                   outbox, pol>>

\* every user set up, the production wiring, and a stop at any moment
InitStop ==
    /\ InitCommon
    /\ upstream = ConcDocuments
    /\ users = [u \in Users |-> SetUpUser(MinFilterPeriod)]
    /\ pol = NoPol

NextStop ==
    \/ OnStartup
    \/ LoopTick
    \/ LoopNext
    \/ LoopUpdate
    \/ Step("loop")
    \/ Advance
    \/ Stop

SpecStop == InitStop /\ [][NextStop]_vars

\* C14: once stop() has ended the driver loop, the check that was in flight has run to
\* its end, the last_check_time of its user is advanced, and a tick that had begun with
\* its users leaves none of them unprocessed.
C14_StopLetsTickFinish ==
    loop.pc = "done" =>
        /\ hist.prev.outcome # "cancelled"
        /\ (hist.prev.task = "loop" =>
               users[hist.prev.user_id].last_check_time >= hist.prev.completed_at)
        /\ (hist.nchecks > 0 => \A j \in 1..Len(loop.users_to_check) : j < loop.i)

\* C15: there are never more notification rows for a (user, doctor, date) than messages
\* delivered for it, so a failed send leaves no row; and when a check is over, every
\* candidate it found new went through the gate: a failed send did not end the loop.
C15_RecordOnlyAfterDelivery ==
    /\ \A n \in 1..Len(notifications) :
         Cardinality({m \in 1..Len(notifications) : SameKey(notifications[m], notifications[n])})
           <= Cardinality({j \in 1..Len(outbox) :
                              /\ outbox[j].outcome = "sent"
                              /\ SameKey(outbox[j], notifications[n])})
    /\ \A j \in 1..Len(outbox) :
         outbox[j].outcome = "failed" =>
             Cardinality({n \in 1..Len(notifications) : SameKey(notifications[n], outbox[j])})
               <= Cardinality({i \in 1..Len(outbox) :
                                  outbox[i].outcome = "sent" /\ SameKey(outbox[i], outbox[j])})
    /\ LET f == frame["loop"]
       IN (f.kind = "user" /\ f.pc = "return") =>
              Cardinality({j \in 1..Len(outbox) : outbox[j].check = f.check})
                = Len(f.new_appointments)

\* a check found two candidates new: the message for the first failed and left no row,
\* the message for the second was delivered and recorded
C15_Witness ==
    LET f == frame["loop"]
    IN /\ f.kind = "user"
       /\ f.pc = "return"
       /\ Len(f.new_appointments) = 2
       /\ \E i, j \in 1..Len(outbox) :
            /\ i < j
            /\ outbox[i].check = f.check /\ outbox[i].outcome = "failed"
            /\ outbox[j].check = f.check /\ outbox[j].outcome = "sent"
            /\ ~SameKey(outbox[i], outbox[j])
            /\ \A n \in 1..Len(notifications) : ~SameKey(notifications[n], outbox[i])
            /\ \E n \in 1..Len(notifications) : SameKey(notifications[n], outbox[j])

\* ------------------------------------------------------------- a failing store
\* a store call awaited by check_user_appointments raises (sqlite3.Error): the exception
\* leaves check_user_appointments, new_appointments is never returned, and the except
\* Exception of the callback logs it; the callback returns.  Every earlier store call of
\* the check was committed by its own connection.  new_appointments keeps what had been
\* classified new up to the failure.
StoreFail(t) ==
    /\ frame[t].kind = "user"
    /\ frame[t].pc \in {"evaluate", "save_doctor", "save_state"}
    /\ frame' = [frame EXCEPT ![t] =
           [@ EXCEPT !.pc = "return", !.available = <<>>, !.k = 0, !.error = TRUE]]
    /\ UNCHANGED <<now, upstream, cfg, users, doctors, schedule_state, notifications, sched, loop,
                   manual, outbox, hist, pol>>

NextFail ==
    \/ OnStartup
    \/ LoopTick
    \/ LoopNext
    \/ LoopUpdate
    \/ Step("loop")
    \/ StoreFail("loop")
    \/ Advance

\* documents with up to MaxSchedule schedule entries and no closest-slot marker
FailDocuments == Documents(PollDates, MaxSchedule, {None})

InitFail ==
    /\ InitCommon
    /\ upstream = FailDocuments
    /\ users = [u \in Users |-> IF u = 1 THEN SetUpUser(MinFilterPeriod) ELSE DefaultUser]
    /\ pol = NoPol

SpecFail == InitFail /\ [][NextFail]_vars

\* C16: a check that a store failure aborted leaves none of its rows behind, and what it
\* had classified new is classified new again by the next check of the same documents.
C16_AbortLeavesNoPartialState ==
    LET f == frame["loop"]
    IN /\ (f.error => Len(schedule_state) = f.base)
       /\ (/\ f.pc = "return"
           /\ ~f.error
           /\ hist.prev.error
           /\ hist.prev.user_id = f.user_id
           /\ hist.prev.all_data = f.all_data)
          => hist.prev.new \subseteq {Key(f.new_appointments[i]) : i \in 1..Len(f.new_appointments)}

\* C17: the driver loop and trigger_user_check never run the check callback for the same
\* user at the same time.
C17_OneCheckPerUser ==
    ~(/\ frame["loop"].pc # "idle"
      /\ frame["manual"].pc # "idle"
      /\ frame["loop"].user_id = frame["manual"].user_id)

\* ------------------------------------------------------------ two departments
\* polls with the global policy first, then the production wiring; two departments are
\* monitored, each answering with a document of its own or not at all
TwoDepartments == <<52, 53>>

InitDept ==
    /\ now = 0
    /\ cfg = [DEPARTMENT_IDS |-> TwoDepartments, ALLOWED_DOCTORS |-> ALLOWED_DOCTORS,
              EXCLUDED_POSITIONS |-> EXCLUDED_POSITIONS]
    /\ doctors = {}
    /\ schedule_state = <<>>
    /\ notifications = <<>>
    /\ sched = [check_callback |-> "none", is_running |-> FALSE]
    /\ loop = [pc |-> "absent", users_to_check |-> <<>>, i |-> 0, wake_at |-> 0]
    /\ manual = [pc |-> "idle", user_id |-> 0]
    /\ frame = [t \in Tasks |-> IdleFrame]
    /\ outbox = <<>>
    /\ hist = [nchecks |-> 0, prev |-> NoPoll]
    /\ upstream = ConcDocuments
    /\ users = [u \in Users |-> IF u = 1 THEN SetUpUser(MinFilterPeriod) ELSE DefaultUser]
    /\ pol = NoPol

\* check_for_updates is polled before the scheduler is started, the driver loop after
NextDept ==
    \/ GlobalStart /\ loop.pc = "absent"
    \/ GlobalReturn
    \/ Fetch("global")
    \/ Evaluate("global")
    \/ SaveDoctor("global")
    \/ SaveState("global")
    \/ OnStartup /\ frame["global"].pc = "idle"
    \/ LoopTick
    \/ LoopNext
    \/ LoopUpdate
    \/ Step("loop")
    \/ Advance

SpecDept == InitDept /\ [][NextDept]_vars

\* the candidates of department d of a check: none when the fetch of the department
\* failed, else the extractor's output, cut to the filter period in a per-user check
DepartmentCandidates(f, d) ==
    LET Test(a) == f.kind = "user" => InPeriod(f, a)
    IN IF f.all_data[d] = None THEN <<>>
       ELSE SelectSeq(extract_available_appointments(f.all_data[d], cfg.ALLOWED_DOCTORS,
                                                     cfg.EXCLUDED_POSITIONS), Test)

RECURSIVE CandidatesFrom(_, _)
CandidatesFrom(f, d) ==
    IF d > Len(f.all_data) THEN <<>>
    ELSE DepartmentCandidates(f, d) \o CandidatesFrom(f, d + 1)

\* C18: in check_for_updates and in check_user_appointments alike, a department whose
\* fetch failed contributes no candidate, no state write and no notification, and every
\* department that answered is processed in full: the rows a poll writes are, in order,
\* the candidates of the answered departments, all of them once the loops are over, and
\* every candidate collected as new is one of them.
C18_FailedDepartmentSkipped ==
    \A t \in {"loop", "global"} :
        LET f == frame[t]
            expected == CandidatesFrom(f, 1)
            written == WrittenBy(f)
        IN f.pc \notin {"idle", "fetch"} =>
            /\ Len(f.all_data) = Len(cfg.DEPARTMENT_IDS)
            /\ Len(written) <= Len(expected)
            /\ \A i \in 1..Len(written) :
                 /\ written[i].doctor_id = expected[i].id
                 /\ written[i].date = expected[i].date
                 /\ written[i].count_tickets = expected[i].count_tickets
                 /\ written[i].closest_entry_time = expected[i].closest_entry_time
            /\ (f.pc \in {"gate", "send", "record", "return"} => Len(written) = Len(expected))
            /\ \A n \in 1..Len(f.new_appointments) :
                 \E i \in 1..Len(expected) : expected[i] = f.new_appointments[n]
            /\ \A i \in 1..Len(outbox) :
                 outbox[i].check = f.check =>
                     \E j \in 1..Len(expected) :
                         /\ expected[j].id = outbox[i].doctor_id
                         /\ expected[j].date = outbox[i].date

\* a per-user check that is over: the first department's fetch failed, the second
\* answered, and the check wrote the state of the second department's candidate
C18_Witness ==
    LET f == frame["loop"]
    IN /\ f.pc = "return"
       /\ f.kind = "user"
       /\ f.all_data[1] = None
       /\ f.all_data[2] # None
       /\ Len(WrittenBy(f)) > 0
       /\ f.new_appointments # <<>>

\* C19: the global policy's verdict is new when no prior state exists for the candidate's
\* (doctor_id, date); otherwise new when its ticket count is greater than the prior one;
\* otherwise new when its closest-slot timestamp is non-empty and differs from the prior
\* one; otherwise unchanged.
C19_GlobalPolicyVerdict ==
    pol.pc = "verdict" =>
        LET a == pol.appointment
            ls == pol.last_state
        IN pol.new_or_changed =
             IF ls = None THEN TRUE
             ELSE IF a.count_tickets > ls.count_tickets THEN TRUE
             ELSE IF a.closest_entry_time # ClosestNone
                     /\ a.closest_entry_time # ls.closest_entry_time THEN TRUE
             ELSE FALSE

\* a verdict of new reached by the third rule alone: no more tickets than before, and a
\* closest-slot timestamp that moved
C19_Witness ==
    /\ pol.pc = "verdict"
    /\ pol.last_state # None
    /\ pol.appointment.count_tickets <= pol.last_state.count_tickets
    /\ pol.appointment.closest_entry_time # ClosestNone
    /\ pol.last_state.closest_entry_time # ClosestNone
    /\ pol.appointment.closest_entry_time # pol.last_state.closest_entry_time
    /\ pol.new_or_changed

\* --------------------------------------------------------- the extractor alone
\* documents of up to MaxDoctors doctor entries: two doctors, one of them possibly of a
\* position on the deny-list, schedule entries with and without tickets, and a marker
\* that is missing, without a timestamp, or on one of two dates
MaxDoctors == 2
MaxEntries == 2
ExtractDates == 1..2
ExtractMarkers == {None, [beginTime |-> ClosestNone]}
                      \cup {[beginTime |-> <<d, 1>>] : d \in ExtractDates}
ExtractDoctors ==
    [id : {"d1", "d2"}, displayName : {"n1"}, position : {"p1", "p2"},
     schedule : SeqsUpTo([date : ExtractDates, count_tickets : 0..1], MaxEntries),
     closestEntry : ExtractMarkers]
ExtractDocuments == {[items |-> ds] : ds \in SeqsUpTo(ExtractDoctors, MaxDoctors)}

InitExtract ==
    /\ now = 0
    /\ cfg \in {[DEPARTMENT_IDS |-> DEPARTMENT_IDS, ALLOWED_DOCTORS |-> ALLOWED_DOCTORS,
                 EXCLUDED_POSITIONS |-> ep] : ep \in {EXCLUDED_POSITIONS, {"p2"}}}
    /\ doctors = {}
    /\ schedule_state = <<>>
    /\ notifications = <<>>
    /\ sched = [check_callback |-> "none", is_running |-> FALSE]
    /\ loop = [pc |-> "absent", users_to_check |-> <<>>, i |-> 0, wake_at |-> 0]
    /\ manual = [pc |-> "idle", user_id |-> 0]
    /\ frame = [t \in Tasks |-> IdleFrame]
    /\ outbox = <<>>
    /\ hist = [nchecks |-> 0, prev |-> NoPoll]
    /\ upstream = {}
    /\ users = [u \in Users |-> DefaultUser]
    /\ \E api_response \in ExtractDocuments :
         pol = [pc |-> "document", api_response |-> api_response, available_appointments |-> <<>>]

\* variant: the document is read without the guard, so a document that is missing or has
\* no 'items' makes the call raise
Extract_without_guard ==
    /\ pol.pc = "document"
    /\ pol' = IF pol.api_response = None \/ "items" \notin DOMAIN pol.api_response
              THEN [pol EXCEPT !.pc = "raised"]
              ELSE [pol EXCEPT !.pc = "extracted",
                               !.available_appointments =
                                   extract_doctors(pol.api_response.items, 1, cfg.ALLOWED_DOCTORS,
                                                   cfg.EXCLUDED_POSITIONS, <<>>)]
    /\ UNCHANGED <<now, upstream, cfg, users, doctors, schedule_state, notifications, sched, loop,
                   manual, frame, outbox, hist>>

\* a call of extract_available_appointments on the document
Extract ==
    /\ pol.pc = "document"
    /\ pol' = [pol EXCEPT !.pc = "extracted",
                          !.available_appointments =
                              extract_available_appointments(pol.api_response, cfg.ALLOWED_DOCTORS,
                                                             cfg.EXCLUDED_POSITIONS)]
    /\ UNCHANGED <<now, upstream, cfg, users, doctors, schedule_state, notifications, sched, loop,
                   manual, frame, outbox, hist>>

NextExtract == Extract

SpecExtract == InitExtract /\ [][NextExtract]_vars

\* the length of the output once the first i doctor entries of the document are done
EmittedAfter(i) ==
    Len(extract_available_appointments([items |-> SubSeq(pol.api_response.items, 1, i)],
                                       cfg.ALLOWED_DOCTORS, cfg.EXCLUDED_POSITIONS))

\* the positions in the output of the synthetic records emitted for doctor entry i
SyntheticOf(i) ==
    {k \in (EmittedAfter(i - 1) + 1)..EmittedAfter(i) :
        pol.available_appointments[k].doc_busy_type_code = "closest"}

\* doctor entry i passes the doctor filter and carries a marker with a timestamp
HasMarker(i) ==
    LET doctor == pol.api_response.items[i]
    IN /\ doctor_kept(doctor, cfg.ALLOWED_DOCTORS, cfg.EXCLUDED_POSITIONS)
       /\ doctor.closestEntry # None
       /\ doctor.closestEntry.beginTime # ClosestNone

\* C20: for every kept doctor with a non-empty closest-slot marker the output holds a
\* candidate for (doctor_id, date of the marker); a synthetic candidate with
\* count_tickets = 0 is emitted for a doctor entry if and only if the entry is kept, has
\* such a marker and no candidate for that (doctor_id, date) was emitted before it; and
\* at most one synthetic candidate is emitted per doctor entry.
C20_SyntheticClosestRecord ==
    pol.pc = "extracted" =>
        LET out == pol.available_appointments
            items == pol.api_response.items
        IN /\ EmittedAfter(Len(items)) = Len(out)
           /\ \A i \in 1..Len(items) :
                LET doctor == items[i]
                    Matches(k) == /\ out[k].id = doctor.id
                                  /\ out[k].date = closest_date_of(doctor.closestEntry.beginTime)
                IN /\ EmittedAfter(i - 1) <= EmittedAfter(i)
                   /\ Cardinality(SyntheticOf(i)) <= 1
                   /\ (~HasMarker(i) => SyntheticOf(i) = {})
                   /\ (HasMarker(i) =>
                         /\ \E k \in 1..EmittedAfter(i) : Matches(k)
                         /\ (SyntheticOf(i) # {}
                               <=> ~\E k \in 1..EmittedAfter(i) \ SyntheticOf(i) : Matches(k))
                         /\ \A k \in SyntheticOf(i) :
                              /\ Matches(k)
                              /\ k = EmittedAfter(i)
                              /\ out[k].count_tickets = 0
                              /\ out[k].closest_entry_time = doctor.closestEntry.beginTime)

\* two kept doctor entries with a marker each: the first has tickets on the date of its
\* marker and gets no synthetic record, the second has a schedule entry without tickets
\* on the date of its marker and gets one
C20_Witness ==
    /\ pol.pc = "extracted"
    /\ Len(pol.api_response.items) = 2
    /\ HasMarker(1)
    /\ HasMarker(2)
    /\ SyntheticOf(1) = {}
    /\ SyntheticOf(2) # {}
    /\ \E e \in 1..Len(pol.api_response.items[2].schedule) :
         /\ pol.api_response.items[2].schedule[e].count_tickets = 0
         /\ pol.api_response.items[2].schedule[e].date
                = closest_date_of(pol.api_response.items[2].closestEntry.beginTime)

\* the candidates emitted for doctor entry i from its schedule, in output order
ScheduleRecordsOf(i) ==
    LET FromSchedule(a) == a.doc_busy_type_code # "closest"
    IN SelectSeq(SubSeq(pol.available_appointments, EmittedAfter(i - 1) + 1, EmittedAfter(i)),
                 FromSchedule)

\* the schedule-day entries of doctor entry i that have tickets, in document order
EntriesWithTickets(i) ==
    LET HasTickets(e) == e.count_tickets > 0
    IN SelectSeq(pol.api_response.items[i].schedule, HasTickets)

\* C21: for every kept doctor the extractor emits one candidate for each schedule-day
\* entry with count_tickets > 0, in document order, carrying the doctor's fields, the
\* day's fields and the doctor's closest-slot time, and none for an entry with
\* count_tickets = 0; a doctor that is not kept yields no candidate.
C21_ScheduleRecords ==
    pol.pc = "extracted" =>
        \A i \in 1..Len(pol.api_response.items) :
            LET doctor == pol.api_response.items[i]
                records == ScheduleRecordsOf(i)
                entries == EntriesWithTickets(i)
            IN IF doctor_kept(doctor, cfg.ALLOWED_DOCTORS, cfg.EXCLUDED_POSITIONS)
               THEN /\ Len(records) = Len(entries)
                    /\ \A k \in 1..Len(records) :
                         /\ records[k].id = doctor.id
                         /\ records[k].display_name = doctor.displayName
                         /\ records[k].position = doctor.position
                         /\ records[k].date = entries[k].date
                         /\ records[k].count_tickets = entries[k].count_tickets
                         /\ records[k].count_tickets > 0
                         /\ records[k].closest_entry_time
                                = parse_closest_entry(doctor.closestEntry)
               ELSE EmittedAfter(i) = EmittedAfter(i - 1)

\* a kept doctor whose schedule has an entry without tickets followed by one with
\* tickets on another date, and the output holds the record of the second only
C21_Witness ==
    /\ pol.pc = "extracted"
    /\ Len(pol.api_response.items) = 1
    /\ doctor_kept(pol.api_response.items[1], cfg.ALLOWED_DOCTORS, cfg.EXCLUDED_POSITIONS)
    /\ Len(pol.api_response.items[1].schedule) = 2
    /\ pol.api_response.items[1].schedule[1].count_tickets = 0
    /\ pol.api_response.items[1].schedule[2].count_tickets > 0
    /\ pol.api_response.items[1].schedule[1].date # pol.api_response.items[1].schedule[2].date
    /\ Len(ScheduleRecordsOf(1)) = 1

\* ------------------------------------------------------------ the doctor filter
\* documents of doctors of two names and two positions, under every combination of an
\* empty or one-name allow-list with an empty or one-position deny-list
FilterDoctors ==
    [id : {"d1"}, displayName : {"n1", "n2"}, position : {"p1", "p2"},
     schedule : SeqsUpTo([date : {1}, count_tickets : 0..1], 1),
     closestEntry : {None, [beginTime |-> <<1, 1>>]}]
FilterDocuments == {[items |-> ds] : ds \in SeqsUpTo(FilterDoctors, MaxDoctors)}

InitFilter ==
    /\ now = 0
    /\ cfg \in {[DEPARTMENT_IDS |-> DEPARTMENT_IDS, ALLOWED_DOCTORS |-> ad,
                 EXCLUDED_POSITIONS |-> ep] :
                    ad \in {ALLOWED_DOCTORS, {"n1"}}, ep \in {EXCLUDED_POSITIONS, {"p2"}}}
    /\ doctors = {}
    /\ schedule_state = <<>>
    /\ notifications = <<>>
    /\ sched = [check_callback |-> "none", is_running |-> FALSE]
    /\ loop = [pc |-> "absent", users_to_check |-> <<>>, i |-> 0, wake_at |-> 0]
    /\ manual = [pc |-> "idle", user_id |-> 0]
    /\ frame = [t \in Tasks |-> IdleFrame]
    /\ outbox = <<>>
    /\ hist = [nchecks |-> 0, prev |-> NoPoll]
    /\ upstream = {}
    /\ users = [u \in Users |-> DefaultUser]
    /\ \E api_response \in FilterDocuments :
         pol = [pc |-> "document", api_response |-> api_response, available_appointments |-> <<>>]

NextFilter == Extract

SpecFilter == InitFilter /\ [][NextFilter]_vars

\* doctor entry i has a schedule-day entry with tickets, which a kept doctor always emits
Productive(i) ==
    LET doctor == pol.api_response.items[i]
    IN \E e \in 1..Len(doctor.schedule) : doctor.schedule[e].count_tickets > 0

\* C22: with a non-empty allow-list a doctor is kept if and only if its display name is
\* on the allow-list, whatever the deny-list says; with an empty allow-list a doctor is
\* kept if and only if its position is not on the deny-list.  Kept is read off the
\* output: a doctor entry contributes candidates only if it is kept, and does contribute
\* when it is kept and has a schedule-day entry with tickets.
C22_AllowListBeforeDenyList ==
    pol.pc = "extracted" =>
        \A i \in 1..Len(pol.api_response.items) :
            LET doctor == pol.api_response.items[i]
                kept == IF cfg.ALLOWED_DOCTORS # {}
                        THEN doctor.displayName \in cfg.ALLOWED_DOCTORS
                        ELSE doctor.position \notin cfg.EXCLUDED_POSITIONS
            IN /\ EmittedAfter(i) > EmittedAfter(i - 1) => kept
               /\ kept /\ Productive(i) => EmittedAfter(i) > EmittedAfter(i - 1)

\* a doctor on the allow-list whose position is on the deny-list, and its candidates are
\* in the output
C22_Witness ==
    /\ pol.pc = "extracted"
    /\ cfg.ALLOWED_DOCTORS # {}
    /\ \E i \in 1..Len(pol.api_response.items) :
         /\ pol.api_response.items[i].displayName \in cfg.ALLOWED_DOCTORS
         /\ pol.api_response.items[i].position \in cfg.EXCLUDED_POSITIONS
         /\ Productive(i)
         /\ EmittedAfter(i) > EmittedAfter(i - 1)

\* C23: in the list extract_available_appointments returns for a document, no two
\* candidates share the same doctor id and the same date.
C23_KeyIdentifiesCandidate ==
    pol.pc = "extracted" =>
        \A j, k \in 1..Len(pol.available_appointments) :
            (/\ pol.available_appointments[j].id = pol.available_appointments[k].id
             /\ pol.available_appointments[j].date = pol.available_appointments[k].date)
                => j = k

\* ------------------------------------------------------ the schedule-state store
\* save_schedule_state and get_last_schedule_state called in any order against a clock
\* of one-second resolution: now is the value of CURRENT_TIMESTAMP
MaxRows == 3
MaxStoreNow == 2
StoreDates == 1..2

InitStore ==
    /\ now = 0
    /\ cfg = [DEPARTMENT_IDS |-> DEPARTMENT_IDS, ALLOWED_DOCTORS |-> ALLOWED_DOCTORS,
              EXCLUDED_POSITIONS |-> EXCLUDED_POSITIONS]
    /\ doctors = {}
    /\ schedule_state = <<>>
    /\ notifications = <<>>
    /\ sched = [check_callback |-> "none", is_running |-> FALSE]
    /\ loop = [pc |-> "absent", users_to_check |-> <<>>, i |-> 0, wake_at |-> 0]
    /\ manual = [pc |-> "idle", user_id |-> 0]
    /\ frame = [t \in Tasks |-> IdleFrame]
    /\ outbox = <<>>
    /\ hist = [nchecks |-> 0, prev |-> NoPoll]
    /\ upstream = {}
    /\ users = [u \in Users |-> DefaultUser]
    /\ pol = [pc |-> "store"]

\* a call of save_schedule_state
StoreSave ==
    /\ Len(schedule_state) < MaxRows
    /\ \E date \in StoreDates, count_tickets \in 0..MaxTickets :
         schedule_state' = save_schedule_state(schedule_state,
                               [doctor_id |-> "d1", date |-> date, count_tickets |-> count_tickets,
                                closest_entry_time |-> ClosestNone], now)
    /\ UNCHANGED <<now, upstream, cfg, users, doctors, notifications, sched, loop, manual, frame,
                   outbox, hist, pol>>

\* a call of get_last_schedule_state; the answer is kept with the number of rows it saw
StoreRead ==
    /\ \E date \in StoreDates :
         \E row \in get_last_schedule_state(schedule_state, "d1", date) :
            pol' = [pc |-> "read", doctor_id |-> "d1", date |-> date, row |-> row,
                    rows |-> Len(schedule_state)]
    /\ UNCHANGED <<now, upstream, cfg, users, doctors, schedule_state, notifications, sched, loop,
                   manual, frame, outbox, hist>>

\* the clock reaches the next second
StoreTick ==
    /\ now < MaxStoreNow
    /\ now' = now + 1
    /\ UNCHANGED <<upstream, cfg, users, doctors, schedule_state, notifications, sched, loop, manual,
                   frame, outbox, hist, pol>>

NextStore ==
    \/ StoreSave
    \/ StoreRead
    \/ StoreTick

SpecStore == InitStore /\ [][NextStore]_vars

\* C24: get_last_schedule_state(doctor_id, date) answers with the row written last for
\* the key by save_schedule_state, also when several rows of the key were written within
\* one clock second, and with none exactly when no row of the key was written.
C24_LastStateIsLastWritten ==
    pol.pc = "read" =>
        LET rows == {i \in 1..pol.rows : /\ schedule_state[i].doctor_id = pol.doctor_id
                                         /\ schedule_state[i].date = pol.date}
        IN IF rows = {} THEN pol.row = None
           ELSE pol.row = schedule_state[MaxOf(rows)]

\* ------------------------------------------------------------ the user settings
MinCheckInterval == 5
MaxCheckInterval == 1440

\* Python's max and min of two integers
max(a, b) == IF a >= b THEN a ELSE b
min(a, b) == IF a <= b THEN a ELSE b

\* Database.add_user: INSERT with the column defaults; ON CONFLICT touches the name
\* columns and last_activity only
add_user(table, user_id) ==
    IF user_id \in DOMAIN table THEN table
    ELSE [u \in DOMAIN table \cup {user_id} |-> IF u = user_id THEN DefaultUser ELSE table[u]]

\* variant: the interval is stored as given
update_check_interval_as_given(table, user_id, interval_minutes) ==
    IF user_id \in DOMAIN table
    THEN [table EXCEPT ![user_id].check_interval_minutes = interval_minutes]
    ELSE table

\* Database.update_check_interval: max(5, min(1440, interval_minutes)), then UPDATE
update_check_interval(table, user_id, interval_minutes) ==
    LET clamped == max(MinCheckInterval, min(MaxCheckInterval, interval_minutes))
    IN IF user_id \in DOMAIN table
       THEN [table EXCEPT ![user_id].check_interval_minutes = clamped]
       ELSE table

\* Database.update_filter_period: max(1, min(30, period_days)), then UPDATE
update_filter_period(table, user_id, period_days) ==
    LET clamped == max(MinFilterPeriod, min(MaxFilterPeriod, period_days))
    IN IF user_id \in DOMAIN table
       THEN [table EXCEPT ![user_id].filter_period_days = clamped]
       ELSE table

\* the integers handed to the two updates: around and far beyond either end of each range
IntervalArguments ==
    {-MaxCheckInterval, -1, 0, MinCheckInterval - 1, MinCheckInterval, MinCheckInterval + 1,
     MaxCheckInterval - 1, MaxCheckInterval, MaxCheckInterval + 1, 2 * MaxCheckInterval}
PeriodArguments ==
    {-MaxFilterPeriod, -1, 0, MinFilterPeriod, MinFilterPeriod + 1, DefaultFilterPeriod,
     MaxFilterPeriod - 1, MaxFilterPeriod, MaxFilterPeriod + 1, 2 * MaxFilterPeriod}

InitSettings ==
    /\ now = 0
    /\ cfg = [DEPARTMENT_IDS |-> DEPARTMENT_IDS, ALLOWED_DOCTORS |-> ALLOWED_DOCTORS,
              EXCLUDED_POSITIONS |-> EXCLUDED_POSITIONS]
    /\ doctors = {}
    /\ schedule_state = <<>>
    /\ notifications = <<>>
    /\ sched = [check_callback |-> "none", is_running |-> FALSE]
    /\ loop = [pc |-> "absent", users_to_check |-> <<>>, i |-> 0, wake_at |-> 0]
    /\ manual = [pc |-> "idle", user_id |-> 0]
    /\ frame = [t \in Tasks |-> IdleFrame]
    /\ outbox = <<>>
    /\ hist = [nchecks |-> 0, prev |-> NoPoll]
    /\ upstream = {}
    /\ users = [u \in {} |-> DefaultUser]
    /\ pol = [pc |-> "settings", op |-> "none", user_id |-> 0, arg |-> 0, known |-> FALSE]

\* a call of add_user; pol keeps the last call and whether the user was known to it
AddUser(user_id) ==
    /\ users' = add_user(users, user_id)
    /\ pol' = [pc |-> "settings", op |-> "add_user", user_id |-> user_id, arg |-> 0,
               known |-> user_id \in DOMAIN users]
    /\ UNCHANGED <<now, upstream, cfg, doctors, schedule_state, notifications, sched, loop, manual,
                   frame, outbox, hist>>

UpdateCheckInterval(user_id) ==
    /\ \E interval_minutes \in IntervalArguments :
         /\ users' = update_check_interval(users, user_id, interval_minutes)
         /\ pol' = [pc |-> "settings", op |-> "update_check_interval", user_id |-> user_id,
                    arg |-> interval_minutes, known |-> user_id \in DOMAIN users]
    /\ UNCHANGED <<now, upstream, cfg, doctors, schedule_state, notifications, sched, loop, manual,
                   frame, outbox, hist>>

UpdateFilterPeriod(user_id) ==
    /\ \E period_days \in PeriodArguments :
         /\ users' = update_filter_period(users, user_id, period_days)
         /\ pol' = [pc |-> "settings", op |-> "update_filter_period", user_id |-> user_id,
                    arg |-> period_days, known |-> user_id \in DOMAIN users]
    /\ UNCHANGED <<now, upstream, cfg, doctors, schedule_state, notifications, sched, loop, manual,
                   frame, outbox, hist>>

NextSettings ==
    \E user_id \in Users :
        \/ AddUser(user_id)
        \/ UpdateCheckInterval(user_id)
        \/ UpdateFilterPeriod(user_id)

SpecSettings == InitSettings /\ [][NextSettings]_vars

\* C25: after any sequence of user creations and of update_check_interval and
\* update_filter_period calls with arbitrary integers, every user's
\* check_interval_minutes lies in 5..1440 and filter_period_days in 1..30; a new user
\* has 5 and 7, and an argument out of range is stored as the nearest end of the range.
C25_SettingsWithinBounds ==
    /\ \A u \in DOMAIN users :
         /\ users[u].check_interval_minutes \in 5..1440
         /\ users[u].filter_period_days \in 1..30
    /\ (pol.op = "add_user" /\ ~pol.known =>
          /\ users[pol.user_id].check_interval_minutes = 5
          /\ users[pol.user_id].filter_period_days = 7)
    /\ (pol.op = "update_check_interval" /\ pol.known =>
          users[pol.user_id].check_interval_minutes
              = IF pol.arg < 5 THEN 5 ELSE IF pol.arg > 1440 THEN 1440 ELSE pol.arg)
    /\ (pol.op = "update_filter_period" /\ pol.known =>
          users[pol.user_id].filter_period_days
              = IF pol.arg < 1 THEN 1 ELSE IF pol.arg > 30 THEN 30 ELSE pol.arg)

\* a user whose interval was last set with an argument above the range and whose filter
\* period was set with an argument below it
C25_Witness ==
    /\ pol.op = "update_check_interval"
    /\ pol.known
    /\ pol.arg > 1440
    /\ users[pol.user_id].check_interval_minutes = 1440
    /\ users[pol.user_id].filter_period_days = 1

\* ------------------------------------------------------- malformed documents
\* what the extractor may be handed in place of a document: nothing, an empty object, or
\* an object without 'items' (an error body, a bare count)
MalformedDocuments ==
    {None, <<>>} \cup {[error |-> e] : e \in {"e1", "e2"}} \cup {[total |-> n] : n \in 0..1}

InitDocument ==
    /\ now = 0
    /\ cfg = [DEPARTMENT_IDS |-> DEPARTMENT_IDS, ALLOWED_DOCTORS |-> ALLOWED_DOCTORS,
              EXCLUDED_POSITIONS |-> EXCLUDED_POSITIONS]
    /\ doctors = {}
    /\ schedule_state = <<>>
    /\ notifications = <<>>
    /\ sched = [check_callback |-> "none", is_running |-> FALSE]
    /\ loop = [pc |-> "absent", users_to_check |-> <<>>, i |-> 0, wake_at |-> 0]
    /\ manual = [pc |-> "idle", user_id |-> 0]
    /\ frame = [t \in Tasks |-> IdleFrame]
    /\ outbox = <<>>
    /\ hist = [nchecks |-> 0, prev |-> NoPoll]
    /\ upstream = {}
    /\ users = [u \in Users |-> DefaultUser]
    /\ \E api_response \in MalformedDocuments \cup FilterDocuments :
         pol = [pc |-> "document", api_response |-> api_response, available_appointments |-> <<>>]

NextDocument == Extract

SpecDocument == InitDocument /\ [][NextDocument]_vars

\* the document is missing, empty, or has no 'items' key
Malformed(api_response) ==
    \/ api_response = None
    \/ DOMAIN api_response = {}
    \/ "items" \notin DOMAIN api_response

\* C26: extract_available_appointments called on a document that is missing, empty or
\* without an 'items' key returns, without raising, and what it returns is the empty list.
C26_MalformedDocumentYieldsNothing ==
    [][pol.pc = "document" /\ Malformed(pol.api_response)
          => pol'.pc = "extracted" /\ pol'.available_appointments = <<>>]_vars

\* the call has returned for an object that has keys, none of them 'items'
C26_Witness ==
    /\ pol.pc = "extracted"
    /\ pol.api_response # None
    /\ DOMAIN pol.api_response # {}
    /\ "items" \notin DOMAIN pol.api_response
    /\ pol.available_appointments = <<>>

\* log is the beginning of the longer or equal log2, row for row
IsPrefix(log, log2) == Len(log) <= Len(log2) /\ SubSeq(log2, 1, Len(log)) = log

\* C27: the schedule-state log and the notification log are append-only: no step of a
\* poll, a check, a dispatch or the scheduler changes or removes a row that exists; the
\* step that calls save_schedule_state adds exactly one row to the first log, the step
\* that calls add_notification exactly one row to the second, and no other step adds any.
C27_LogsAppendOnly ==
    [][/\ IsPrefix(schedule_state, schedule_state')
       /\ IsPrefix(notifications, notifications')
       /\ Len(schedule_state') - Len(schedule_state)
              = IF \E t \in Tasks : frame[t].pc = "save_state" /\ frame'[t] # frame[t]
                THEN 1 ELSE 0
       /\ Len(notifications') - Len(notifications)
              = IF \E t \in Tasks : frame[t].pc = "record" /\ frame'[t] # frame[t]
                THEN 1 ELSE 0]_vars

\* both logs hold a row, and the schedule-state log holds two rows of one key, the
\* earlier one still in place
C27_Witness ==
    /\ notifications # <<>>
    /\ \E i, j \in 1..Len(schedule_state) :
         /\ i < j
         /\ schedule_state[i].doctor_id = schedule_state[j].doctor_id
         /\ schedule_state[i].date = schedule_state[j].date
         /\ schedule_state[i].checked_at < schedule_state[j].checked_at

\* ------------------------------------------------- start and stop of the scheduler
\* start() and stop() called at any moment, with or without a callback set.  pol counts
\* the loop tasks: tasks are those created and not cancelled, created all those ever
\* created; it also keeps the last call and how it ended.
MaxStarts == 2

InitLifecycle ==
    /\ InitCommon
    /\ upstream = {}
    /\ users = [u \in Users |-> SetUpUser(DefaultFilterPeriod)]
    /\ pol = [pc |-> "lifecycle", op |-> "none", outcome |-> "none", tasks |-> 0, created |-> 0]

\* variant: start() does not look at is_running
StartCall_always_creates ==
    /\ pol.pc = "lifecycle"
    /\ pol.created < MaxStarts
    /\ IF sched.check_callback = "none"
       THEN /\ pol' = [pol EXCEPT !.op = "start", !.outcome = "raised"]
            /\ UNCHANGED <<sched, loop>>
       ELSE /\ sched' = [sched EXCEPT !.is_running = TRUE]
            /\ loop' = [pc |-> "sleep", users_to_check |-> <<>>, i |-> 0, wake_at |-> now]
            /\ pol' = [pol EXCEPT !.op = "start", !.outcome = "started",
                                  !.tasks = @ + 1, !.created = @ + 1]
    /\ UNCHANGED <<now, upstream, cfg, users, doctors, schedule_state, notifications, manual, frame,
                   outbox, hist>>

\* UserScheduler.start: ValueError without a callback; a warning and return when
\* running; else is_running = True and asyncio.create_task(self._check_loop())
StartCall ==
    /\ pol.pc = "lifecycle"
    /\ pol.created < MaxStarts
    /\ IF sched.check_callback = "none"
       THEN /\ pol' = [pol EXCEPT !.op = "start", !.outcome = "raised"]
            /\ UNCHANGED <<sched, loop>>
       ELSE IF sched.is_running
       THEN /\ pol' = [pol EXCEPT !.op = "start", !.outcome = "noop"]
            /\ UNCHANGED <<sched, loop>>
       ELSE /\ sched' = [sched EXCEPT !.is_running = TRUE]
            /\ loop' = [pc |-> "sleep", users_to_check |-> <<>>, i |-> 0, wake_at |-> now]
            /\ pol' = [pol EXCEPT !.op = "start", !.outcome = "started",
                                  !.tasks = @ + 1, !.created = @ + 1]
    /\ UNCHANGED <<now, upstream, cfg, users, doctors, schedule_state, notifications, manual, frame,
                   outbox, hist>>

\* variant: stop() clears is_running and returns without cancelling and awaiting the task
StopCall_flag_only ==
    /\ pol.pc = "lifecycle"
    /\ IF ~sched.is_running
       THEN /\ pol' = [pol EXCEPT !.op = "stop", !.outcome = "noop"]
            /\ UNCHANGED <<sched, loop, frame>>
       ELSE /\ sched' = [sched EXCEPT !.is_running = FALSE]
            /\ pol' = [pol EXCEPT !.op = "stop", !.outcome = "stopped", !.tasks = @ - 1]
            /\ UNCHANGED <<loop, frame>>
    /\ UNCHANGED <<now, upstream, cfg, users, doctors, schedule_state, notifications, manual,
                   outbox, hist>>


\* UserScheduler.stop: return when not running; else is_running = False, cancel the task
\* and await it: the loop ends at the await it is suspended in, with it the callback
StopCall ==
    /\ pol.pc = "lifecycle"
    /\ IF ~sched.is_running
       THEN /\ pol' = [pol EXCEPT !.op = "stop", !.outcome = "noop"]
            /\ UNCHANGED <<sched, loop, frame>>
       ELSE /\ sched' = [sched EXCEPT !.is_running = FALSE]
            /\ loop' = [loop EXCEPT !.pc = "done"]
            /\ frame' = [frame EXCEPT !["loop"] = IdleFrame]
            /\ pol' = [pol EXCEPT !.op = "stop", !.outcome = "stopped", !.tasks = @ - 1]
    /\ UNCHANGED <<now, upstream, cfg, users, doctors, schedule_state, notifications, manual,
                   outbox, hist>>

NextLifecycle ==
    \/ SetCheckCallback("generic")
    \/ StartCall
    \/ StopCall
    \/ LoopTick
    \/ LoopNext
    \/ LoopUpdate
    \/ LoopCatch
    \/ GenericFinish("loop")
    \/ Tick

SpecLifecycle == InitLifecycle /\ [][NextLifecycle]_vars

\* C28: the scheduler is Stopped or Running, and Running exactly while its one loop task
\* exists, so there is never more than one driver loop; start() without a callback
\* raises and leaves it Stopped; start() while Running and stop() while Stopped change
\* nothing; stop() while Running ends the loop; start() after stop() runs one new loop.
C28_SchedulerStateMachine ==
    /\ [](/\ pol.tasks \in {0, 1}
          /\ sched.is_running <=> pol.tasks = 1
          /\ sched.is_running <=> loop.pc \in {"sleep", "next", "check"}
          /\ sched.check_callback = "none" => ~sched.is_running)
    /\ [][pol' # pol =>
            /\ (pol'.op = "start" /\ sched.check_callback = "none" =>
                  pol'.outcome = "raised" /\ ~sched'.is_running /\ loop' = loop)
            /\ (pol'.op = "start" /\ sched.is_running =>
                  pol'.outcome = "noop" /\ sched' = sched /\ loop' = loop
                      /\ pol'.created = pol.created)
            /\ (pol'.op = "stop" /\ ~sched.is_running =>
                  pol'.outcome = "noop" /\ sched' = sched /\ loop' = loop /\ frame' = frame)
            /\ (pol'.op = "stop" /\ sched.is_running =>
                  ~sched'.is_running /\ loop'.pc = "done" /\ pol'.tasks = 0)
            /\ (pol'.op = "start" /\ sched.check_callback # "none" /\ ~sched.is_running =>
                  sched'.is_running /\ loop'.pc = "sleep" /\ pol'.tasks = 1
                      /\ pol'.created = pol.created + 1)]_vars

\* the scheduler was started, stopped and started again, and the second loop has begun a
\* check
C28_Witness ==
    /\ pol.created = 2
    /\ pol.tasks = 1
    /\ sched.is_running
    /\ loop.pc = "check"

\* ---------------------------------------------------- booked out and freed again
\* one doctor, one day: the day's schedule entry is served with any ticket count,
\* zero included.  The store already holds the row of an earlier poll that saw the day
\* with tickets, and user 1 was checked at that time.
FreedDate == 1
FreedDocuments ==
    {[items |-> <<[id |-> "d1", displayName |-> "n1", position |-> "p1",
                   schedule |-> <<[date |-> FreedDate, count_tickets |-> count_tickets]>>,
                   closestEntry |-> None]>>] : count_tickets \in Tickets}

InitFreed ==
    /\ now = DefaultCheckInterval
    /\ cfg = [DEPARTMENT_IDS |-> DEPARTMENT_IDS, ALLOWED_DOCTORS |-> ALLOWED_DOCTORS,
              EXCLUDED_POSITIONS |-> EXCLUDED_POSITIONS]
    /\ doctors = {"d1"}
    /\ \E count_tickets \in 1..MaxTickets :
         schedule_state = save_schedule_state(<<>>,
                              [doctor_id |-> "d1", date |-> FreedDate,
                               count_tickets |-> count_tickets,
                               closest_entry_time |-> ClosestNone], 0)
    /\ notifications = <<>>
    /\ sched = [check_callback |-> "none", is_running |-> FALSE]
    /\ loop = [pc |-> "absent", users_to_check |-> <<>>, i |-> 0, wake_at |-> 0]
    /\ manual = [pc |-> "idle", user_id |-> 0]
    /\ frame = [t \in Tasks |-> IdleFrame]
    /\ outbox = <<>>
    /\ hist = [nchecks |-> 0, prev |-> NoPoll]
    /\ upstream = FreedDocuments
    /\ users = [u \in Users |-> IF u = 1
                                THEN [SetUpUser(MinFilterPeriod) EXCEPT !.last_check_time = 0]
                                ELSE DefaultUser]
    /\ pol = NoPol

NextFreed ==
    \/ OnStartup
    \/ LoopTick
    \/ LoopNext
    \/ LoopUpdate
    \/ Step("loop")
    \/ Advance

SpecFreed == InitFreed /\ [][NextFreed]_vars

\* the ticket count the document shows for the day, -1 without a document
ShownTickets(all_data) ==
    IF Len(all_data) = 0 \/ all_data[1] = None THEN -1
    ELSE all_data[1].items[1].schedule[1].count_tickets

\* C29: a day last recorded with N > 0 tickets, then seen fully booked (0 tickets) by a
\* poll, then seen with M > 0 tickets, M <= N, by the next poll: that poll classifies the
\* candidate as new under the per-user policy.
C29_FreedSlotIsNew ==
    LET f == frame["loop"]
    IN (/\ f.pc \in {"gate", "send", "record", "return"}
        /\ hist.prev.task = "loop"
        /\ ShownTickets(hist.prev.all_data) = 0
        /\ ShownTickets(f.all_data) > 0
        /\ ShownTickets(f.all_data) <= schedule_state[1].count_tickets)
       => \E n \in 1..Len(f.new_appointments) :
              /\ f.new_appointments[n].id = "d1"
              /\ f.new_appointments[n].date = FreedDate

\* ------------------------------------------------------ two subscribers, one store
\* both users set up and due, checked by the driver loop one after the other
SpecShared == InitStop /\ [][NextSeq]_vars

\* C30: the per-user detector judges a candidate against the state saved for that user,
\* so a check for one user leaves the verdict of another user's next check as it would
\* have been: when two users check the same upstream data one after the other on the
\* same day, what was new for the first is new for the second.
C30_VerdictIndependentOfOtherUsers ==
    LET f == frame["loop"]
    IN (/\ f.pc \in {"gate", "send", "record", "return"}
        /\ f.kind = "user"
        /\ hist.prev.kind = "user"
        /\ hist.prev.user_id # f.user_id
        /\ hist.prev.all_data = f.all_data
        /\ today_of(hist.prev.start_at) = today_of(f.start_at))
       => hist.prev.new \subseteq {Key(f.new_appointments[n]) : n \in 1..Len(f.new_appointments)}

\* ------------------------------------------- store failures around the user's check
\* the production wiring with a clock that advances minute by minute and a store whose
\* calls may raise: inside the check, in get_users_to_check at the start of a tick, and
\* in update_last_check_time after the callback
\* get_users_to_check raises: the except of the while body logs it and sleeps 60 s
LoopTickFail ==
    /\ loop.pc = "sleep"
    /\ now >= loop.wake_at
    /\ sched.is_running
    /\ loop' = [pc |-> "sleep", users_to_check |-> <<>>, i |-> 0, wake_at |-> now + SleepMinutes]
    /\ UNCHANGED <<now, upstream, cfg, users, doctors, schedule_state, notifications, sched, manual,
                   frame, outbox, hist, pol>>

\* variant: an exception of update_last_check_time reaches the handler of the whole tick
LoopUpdateFail_ends_tick ==
    /\ loop.pc = "check"
    /\ frame["loop"].pc = "return"
    /\ hist' = [hist EXCEPT !.prev = [summary(frame["loop"], outbox, "loop", now) EXCEPT
                                          !.outcome = "update_failed"]]
    /\ frame' = [frame EXCEPT !["loop"] = IdleFrame]
    /\ loop' = [pc |-> "sleep", users_to_check |-> <<>>, i |-> 0, wake_at |-> now + SleepMinutes]
    /\ UNCHANGED <<now, upstream, cfg, users, doctors, schedule_state, notifications, sched, manual,
                   outbox, pol>>

\* the callback returned and update_last_check_time raises: the except around the single
\* user logs it, and the for loop goes on to the next user
LoopUpdateFail ==
    /\ loop.pc = "check"
    /\ frame["loop"].pc = "return"
    /\ hist' = [hist EXCEPT !.prev = [summary(frame["loop"], outbox, "loop", now) EXCEPT
                                          !.outcome = "update_failed"]]
    /\ frame' = [frame EXCEPT !["loop"] = IdleFrame]
    /\ loop' = [loop EXCEPT !.pc = "next", !.i = @ + 1]
    /\ UNCHANGED <<now, upstream, cfg, users, doctors, schedule_state, notifications, sched, manual,
                   outbox, pol>>

\* a minute passes while the loop sleeps or a check waits for the network
MaxErrNow == 7
Minute ==
    /\ IF loop.pc = "sleep" THEN TRUE ELSE frame["loop"].pc \in {"fetch", "send"}
    /\ now < MaxErrNow
    /\ now' = now + 1
    /\ UNCHANGED <<upstream, cfg, users, doctors, schedule_state, notifications, sched, loop, manual,
                   frame, outbox, hist, pol>>


InitStoreErr ==
    /\ InitCommon
    /\ upstream = ConcDocuments
    /\ users \in {[u \in Users |-> IF u = 1 THEN SetUpUser(MinFilterPeriod) ELSE DefaultUser],
                  [u \in Users |-> SetUpUser(MinFilterPeriod)]}
    /\ pol = NoPol

NextStoreErr ==
    \/ OnStartup
    \/ LoopTick
    \/ LoopTickFail
    \/ LoopNext
    \/ LoopUpdate
    \/ LoopUpdateFail
    \/ Step("loop")
    \/ StoreFail("loop")
    \/ Minute

SpecStoreErr == InitStoreErr /\ [][NextStoreErr]_vars

\* C31: with the production callback no exception of the tracker, the store or the
\* dispatch reaches the scheduler, so last_check_time is advanced after every check the
\* loop drives, and the loop never starts a check of a user less than
\* check_interval_minutes after the completion of its previous check of that user.
C31_ChecksAnIntervalApart ==
    /\ [](frame["loop"].pc # "raised")
    /\ [](hist.prev.task = "loop" =>
            users[hist.prev.user_id].last_check_time = hist.prev.completed_at)
    /\ [][(frame["loop"].pc = "idle" /\ frame'["loop"].pc # "idle"
               /\ hist.prev.task = "loop" /\ hist.prev.user_id = frame'["loop"].user_id)
            => now >= hist.prev.completed_at
                          + users[hist.prev.user_id].check_interval_minutes]_vars

\* ------------------------------------------------- a user who turns notifications off
\* Database.set_notifications: UPDATE users SET is_notifications_enabled = ?
set_notifications(table, user_id, enabled) ==
    IF user_id \in DOMAIN table
    THEN [table EXCEPT ![user_id].is_notifications_enabled = enabled]
    ELSE table

\* the user switches notifications on or off through the bot
SetNotifications(user_id) ==
    /\ \E enabled \in BOOLEAN :
         /\ users[user_id].is_notifications_enabled # enabled
         /\ users' = set_notifications(users, user_id, enabled)
    /\ UNCHANGED <<now, upstream, cfg, doctors, schedule_state, notifications, sched, loop, manual,
                   frame, outbox, hist, pol>>

NextOptOut ==
    \/ OnStartup
    \/ LoopTick
    \/ LoopNext
    \/ LoopUpdate
    \/ ManualTrigger(1)
    \/ ManualSettings
    \/ ManualUpdate
    \/ \E t \in {"loop", "manual"} : Step(t)
    \/ SetNotifications(1)

SpecOptOut == Init /\ [][NextOptOut]_vars

\* C32: no check is started, by the driver loop or by trigger_user_check, for a user who
\* at that moment is inactive or has notifications disabled, so no notification is
\* dispatched for such a user either.
C32_NoCheckForDisabledUser ==
    [][\A t \in {"loop", "manual"} :
          (frame[t].pc = "idle" /\ frame'[t].pc # "idle")
              => /\ users[frame'[t].user_id].is_active
                 /\ users[frame'[t].user_id].is_notifications_enabled]_vars

\* ------------------------------------------------------- the driver under fairness
\* the scheduler of SpecSched with a loop task that is scheduled whenever it can run,
\* callbacks that terminate (by returning or by raising), and a clock that advances
SpecSchedFair ==
    /\ SpecSched
    /\ WF_vars(LoopTick)
    /\ WF_vars(LoopNext)
    /\ WF_vars(LoopUpdate)
    /\ WF_vars(LoopCatch)
    /\ WF_vars(GenericFinish("loop"))
    /\ WF_vars(Tick)

\* the callback is being awaited for user u
Invoked(u) == frame["loop"].pc # "idle" /\ frame["loop"].user_id = u

\* user u is owed a check within the bounds of the model: u is due while the loop sleeps
\* towards a tick the clock can reach, or u is in the list of the tick under way
Awaiting(u) ==
    /\ sched.is_running
    /\ IF loop.pc = "sleep"
       THEN /\ user_is_due(users[u], now)
            /\ loop.wake_at <= MaxSchedNow
            /\ hist.nchecks + NumUsers <= MaxChecks
       ELSE /\ loop.pc \in {"next", "check"}
            /\ \E j \in 1..Len(loop.users_to_check) :
                 /\ j >= loop.i
                 /\ loop.users_to_check[j].user_id = u
                 /\ hist.nchecks + (j - loop.i) + (IF loop.pc = "next" THEN 1 ELSE 0) <= MaxChecks

C34_StoreFailureKeepsLoop ==
    /\ [](sched.is_running => loop.pc \in {"sleep", "next", "check"})
    /\ [][(loop.pc = "sleep" /\ loop' # loop)
            => \/ /\ loop'.pc = "next"
                  /\ loop'.i = 1
                  /\ loop'.users_to_check = get_users_to_check(users, now)
               \/ /\ loop'.pc = "sleep"
                  /\ loop'.wake_at = now + SleepMinutes]_vars
    /\ [][(loop.pc \in {"next", "check"} /\ loop'.pc = "sleep")
            => /\ loop.pc = "next"
               /\ loop.i > Len(loop.users_to_check)]_vars
    /\ [][(loop.pc = "check" /\ loop'.pc # "check")
            => /\ loop'.pc = "next"
               /\ loop'.i = loop.i + 1
               /\ loop'.users_to_check = loop.users_to_check]_vars

\* update_last_check_time failed for user 1 and the callback is awaited for user 2, the
\* next user of the same list
C34_Witness ==
    /\ hist.prev.task = "loop"
    /\ hist.prev.user_id = 1
    /\ hist.prev.outcome = "update_failed"
    /\ loop.pc = "check"
    /\ loop.i = 2
    /\ Len(loop.users_to_check) = 2
    /\ Invoked(2)

\* ------------------------------------------------------- candidates without tickets
\* C35: a candidate with count_tickets = 0, as every synthetic closest-slot candidate is,
\* is never classified new by the per-user policy, whatever row the store returns for it
\* (none, or one with any ticket count and any closest-slot time).
C35_ZeroTicketsNeverNew ==
    (pol.pc = "verdict" /\ pol.appointment.count_tickets = 0) => ~pol.really_new

\* the verdict on a synthetic closest-slot candidate for today or tomorrow, seen for the
\* first time
C35_Witness ==
    /\ pol.pc = "verdict"
    /\ pol.appointment.count_tickets = 0
    /\ pol.appointment.doc_busy_type_code = "closest"
    /\ pol.appointment.closest_entry_time # ClosestNone
    /\ strptime_ok(pol.appointment.date)
    /\ pol.appointment.date <= pol.today + 1
    /\ pol.last_state = None
    /\ ~pol.really_new

\* C36: the per-user policy is at least as strict as the global one: for the same
\* candidate and the same prior row, a verdict new of _is_really_new_appointment implies
\* a verdict new of _is_new_or_changed.
C36_PerUserImpliesGlobal ==
    (pol.pc = "verdict" /\ pol.really_new) => pol.new_or_changed

\* both policies say new on a ticket increase over a prior row that had tickets
C36_Witness ==
    /\ pol.pc = "verdict"
    /\ pol.really_new
    /\ pol.new_or_changed
    /\ pol.last_state # None
    /\ pol.appointment.count_tickets > pol.last_state.count_tickets
    /\ pol.last_state.count_tickets > 0

\* ------------------------------------------------------- after stop()
\* C37: once stop() has returned, and until start() is called again, the scheduler is
\* Stopped, no callback is awaited by the driver loop and none is started, and no
\* last_check_time is updated.
C37_NothingAfterStop ==
    /\ [](pol.pc = "lifecycle" /\ pol.op = "stop"
            => /\ ~sched.is_running
               /\ frame["loop"].pc = "idle"
               /\ loop.pc \notin {"sleep", "next", "check"})
    /\ [][(pol.pc = "lifecycle" /\ pol.op = "stop" /\ pol'.op = "stop")
            => /\ frame'["loop"].pc = "idle"
               /\ hist'.nchecks = hist.nchecks
               /\ \A u \in Users : users'[u].last_check_time = users[u].last_check_time]_vars

\* stop() returned after it had cancelled the loop inside the callback for the first of
\* two due users: neither user's last_check_time was written
C37_Witness ==
    /\ pol.pc = "lifecycle"
    /\ pol.op = "stop"
    /\ pol.outcome = "stopped"
    /\ loop.pc = "done"
    /\ loop.i = 1
    /\ Len(loop.users_to_check) = 2
    /\ hist.nchecks = 1
    /\ \A u \in Users : users[u].last_check_time = NullTime

\* ------------------------------------------------------- trigger_user_check turned away
\* trigger_user_check while no callback is set: the error is logged and the call returns;
\* manual.user_id keeps the argument of that call
ManualTriggerNoCallback(user_id) ==
    /\ manual.pc = "idle"
    /\ sched.check_callback = "none"
    /\ manual.user_id # user_id
    /\ manual' = [pc |-> "idle", user_id |-> user_id]
    /\ UNCHANGED <<now, upstream, cfg, users, doctors, schedule_state, notifications, sched, loop,
                   frame, outbox, hist, pol>>

\* the ids trigger_user_check is called with: the users and one id without a row
TriggerIds == 1..(NumUsers + 1)

\* user 1 is set up; user 2 has no credentials, one of the two, or both
InitTrigger ==
    /\ InitCommon
    /\ upstream = ConcDocuments
    /\ \E number \in {"NULL", "", "pn"}, birthday \in {"NULL", "", "pb"} :
         users = [u \in Users |->
                    IF u = 1 THEN SetUpUser(MinFilterPeriod)
                    ELSE [DefaultUser EXCEPT !.patient_number = number,
                                             !.patient_birthday = birthday]]
    /\ pol = NoPol

NextTrigger ==
    \/ SetCheckCallback("production")
    \/ \E user_id \in TriggerIds : ManualTriggerNoCallback(user_id)
    \/ \E user_id \in TriggerIds : ManualTrigger(user_id)
    \/ ManualSettings
    \/ ManualUpdate
    \/ Step("manual")
    \/ Advance

SpecTrigger == InitTrigger /\ [][NextTrigger]_vars

\* trigger_user_check(user_id) has nobody to check: no row, or a credential missing
NotSetUp(user_id) ==
    \/ user_id \notin DOMAIN users
    \/ users[user_id].patient_number \in {"NULL", ""}
    \/ users[user_id].patient_birthday \in {"NULL", ""}

\* C38: trigger_user_check for a user without a row, or without patient_number or
\* patient_birthday, or while no callback is set, invokes no callback and leaves every
\* last_check_time and the whole store as they were.
C38_TriggerTurnedAway ==
    /\ [](frame["manual"].pc # "idle"
            => /\ sched.check_callback # "none"
               /\ ~NotSetUp(frame["manual"].user_id))
    /\ [][(\/ manual.pc = "idle" /\ manual' # manual
           \/ manual.pc = "settings" /\ NotSetUp(manual.user_id))
            => /\ frame' = frame
               /\ hist' = hist
               /\ users' = users
               /\ doctors' = doctors
               /\ schedule_state' = schedule_state
               /\ notifications' = notifications
               /\ outbox' = outbox
               /\ (manual.pc = "settings" => manual'.pc = "idle")
               /\ (sched.check_callback = "none" => manual'.pc = "idle")]_vars

\* trigger_user_check(2) has returned while no callback was set: no check was started and
\* user 2's last_check_time is still unset
C38_Witness ==
    /\ sched.check_callback = "none"
    /\ manual = [pc |-> "idle", user_id |-> 2]
    /\ frame["manual"].pc = "idle"
    /\ hist.nchecks = 0
    /\ users[2].last_check_time = NullTime
====
